---- MODULE Spec2Model ----
(***************************************************************************)
(* Scrape-job lifecycle and CSV import of gmaps_leads (services.py, the    *)
(* sync_scraper_jobs command and the admin sync view), as a state machine  *)
(* over the ScrapeJob and GmapsLead tables.                                *)
(*                                                                         *)
(* Python strings that the code strips, truncates or parses are tuples of  *)
(* one-character strings; Python's None is the tuple None below.  Status   *)
(* words are TLA+ strings.  The remote scraper API is the environment:     *)
(* every answer it gives is an input of the action that asks for it.  The  *)
(* one assumption made about it is that it never issues the same job id    *)
(* twice.                                                                  *)
(***************************************************************************)
EXTENDS Integers, Sequences, FiniteSets, TLC

VARIABLES
    jobs,   \* ScrapeJob table: sequence of rows, the primary key is the index
    leads,  \* GmapsLead table: sequence of rows in insertion order
    now,    \* timezone.now(), advanced by one at every handler call
    last,   \* what the most recent handler call was given and what it returned
    websites,  \* LeadWebsite table: sequence of rows, the primary key is the index
    web,    \* what a GET of the lead's website is answered with at present
    keys,      \* OpenAIKeyPool table: sequence of rows in the order of created_at
    profiles,  \* UserN8NProfile.openai_api_key of every user
    calls,     \* the assign_to_user call of every user
    remote,    \* the remote service: of every external id, the status word and
               \* whether the CSV file downloads
    runs       \* the import_job_results runs that are under way, row by row

poolVars == <<keys, profiles, calls>>

vars == <<jobs, leads, now, last, websites, web, poolVars, remote, runs>>

---------------------------------------------------------------------------
(* Bounds *)

MaxJobs == 2      \* external ids the remote service can issue
MaxTime == 4      \* handler calls are made while now < MaxTime
MaxRows == 3      \* data rows of a downloaded CSV file
MaxListing == 2   \* jobs in one answer of GET /api/v1/jobs
MaxLeads == 2     \* leads whose websites are scraped
MaxNodes == 2     \* top-level elements of a web page
MaxKeys == 3      \* keys of the pool
MaxUsers == 3     \* users who ask for a key
MaxCalls == 2     \* assign_to_user calls of one user
MaxMinAge == 2    \* the largest --min-age of a polling pass, in ticks
MaxRuns == 2      \* import_job_results runs that are under way at once
MaxRaceRows == 2  \* data rows of the CSV file two runs read at once

---------------------------------------------------------------------------
(* Python values *)

None == <<"None">>
SP == " "
NoTime == 0

Truthy(v) == v # None /\ v # <<>>

RECURSIVE lstrip(_)
lstrip(s) == IF s # <<>> /\ Head(s) = SP THEN lstrip(Tail(s)) ELSE s

RECURSIVE rstrip(_)
rstrip(s) == IF s # <<>> /\ s[Len(s)] = SP THEN rstrip(SubSeq(s, 1, Len(s) - 1)) ELSE s

strip(s) == rstrip(lstrip(s))

\* value[:n]
Slice(s, n) == IF Len(s) > n THEN SubSeq(s, 1, n) ELSE s

Digits == {"0", "1", "2", "3", "4", "5", "6", "7", "8", "9"}

DigitVal(c) ==
    CASE c = "0" -> 0 [] c = "1" -> 1 [] c = "2" -> 2 [] c = "3" -> 3 [] c = "4" -> 4
      [] c = "5" -> 5 [] c = "6" -> 6 [] c = "7" -> 7 [] c = "8" -> 8 [] c = "9" -> 9

\* int(s) raises ValueError unless s, stripped, is a run of digits
IntParses(s) ==
    LET t == strip(s) IN t # <<>> /\ \A i \in 1..Len(t) : t[i] \in Digits

RECURSIVE IntValue(_)
IntValue(t) == IF t = <<>> THEN 0 ELSE 10 * IntValue(SubSeq(t, 1, Len(t) - 1)) + DigitVal(t[Len(t)])

\* float(s) raises ValueError unless s, stripped, is digits with at most one point
FloatParses(s) ==
    LET t == strip(s) IN
        /\ \A i \in 1..Len(t) : t[i] \in Digits \cup {"."}
        /\ \E i \in 1..Len(t) : t[i] \in Digits
        /\ Cardinality({i \in 1..Len(t) : t[i] = "."}) <= 1

---------------------------------------------------------------------------
(* Field length caps of _find_existing_lead and _create_lead_from_csv_row *)

CidMaxLen == 100
DataIdMaxLen == 100
LinkMaxLen == 2000
TitleMaxLen == 500

normalize_str(value, max_len) ==
    IF value = None THEN None
    ELSE LET v == strip(value) IN
         IF v = <<>> THEN None
         ELSE IF max_len # 0 THEN Slice(v, max_len) ELSE v

---------------------------------------------------------------------------
(* The remote scraper API, as the answers it can give *)

\* What get_job returns for GET /api/v1/jobs/{id}: a payload (the upstream status
\* word under 'Status' or 'status', an optional 'error'), or NotFound, the None it
\* returns for a 404 or a network error.  Absent is a key the payload lacks.
Absent == "<absent>"

RawStatuses == {"ok", "Done", "failed", "error", "queued", "working"}

NotFound == [found |-> FALSE, Status |-> Absent, status |-> Absent, error |-> Absent]

Payload(Status, status, error) ==
    [found |-> TRUE, Status |-> Status, status |-> status, error |-> error]

\* The answers is_job_ready reads the status word of
StatusAnswers ==
    {Payload(w, Absent, Absent) : w \in RawStatuses}
      \cup {Payload(Absent, w, Absent) : w \in {"ok", "pending"}}
      \cup {NotFound}

\* The answers refresh_job_status reads the error text of
ErrorAnswers == {Payload("failed", Absent, "boom"), Payload("failed", Absent, Absent), NotFound}

\* The status words is_job_ready is tried on, in several spellings, and the empty
\* word
StatusWords ==
    {"done", "Done", "DONE", "ok", "OK", "ready", "Ready", "completed", "Completed",
     "finished", "queued", "Queued", "waiting", "pending", "PENDING", "failed", "Failed",
     "error", "ERROR", "weird", "working", "running", ""}

\* A payload with any of the words, or none, under each of the two keys
ReadyAnswers ==
    {Payload(a, b, Absent) : a, b \in StatusWords \cup {Absent}} \cup {NotFound}

\* str.lower() on the status words the remote service uses
Lower(s) ==
    CASE s \in {"Done", "DONE"} -> "done"
      [] s = "OK" -> "ok"
      [] s = "Ready" -> "ready"
      [] s = "Completed" -> "completed"
      [] s = "Queued" -> "queued"
      [] s = "PENDING" -> "pending"
      [] s = "Failed" -> "failed"
      [] s = "ERROR" -> "error"
      [] OTHER -> s

\* dict.get(key, default)
Get(v, default) == IF v = Absent THEN default ELSE v

\* a or b, on values that are absent or strings
Or(a, b) == IF a # Absent /\ a # "" THEN a ELSE b

\* is_job_ready, had it compared the status word as it came
is_job_ready_case_sensitive(job_data) ==
    IF ~job_data.found THEN <<FALSE, "not_found">>
    ELSE LET status == Or(job_data.Status, Get(job_data.status, "")) IN
         IF status \in {"completed", "done", "finished", "ready", "ok"} THEN <<TRUE, "completed">>
         ELSE IF status \in {"failed", "error"} THEN <<FALSE, "failed">>
         ELSE IF status \in {"pending", "queued", "waiting"} THEN <<FALSE, "pending">>
         ELSE <<FALSE, "running">>

\* is_job_ready on what get_job returned (a payload is a dict that is not empty)
is_job_ready(job_data) ==
    IF ~job_data.found THEN <<FALSE, "not_found">>
    ELSE LET status == Lower(Or(job_data.Status, Get(job_data.status, ""))) IN
         IF status \in {"completed", "done", "finished", "ready", "ok"} THEN <<TRUE, "completed">>
         ELSE IF status \in {"failed", "error"} THEN <<FALSE, "failed">>
         ELSE IF status \in {"pending", "queued", "waiting"} THEN <<FALSE, "pending">>
         ELSE <<FALSE, "running">>

\* What requests.request meets at GET /api/v1/jobs: a response with its status
\* code and the list in its body, or a RequestException of the given kind
ListResponse(kind, status_code, body) ==
    [kind |-> kind, status_code |-> status_code, body |-> body]

NoResponse == ListResponse("", 0, <<>>)

\* response.raise_for_status() raises HTTPError for a 4xx or 5xx status code
raise_for_status(response) == response.status_code >= 400 /\ response.status_code < 600

\* get_all_jobs: the exception it raises ("" when it returns) and the list it
\* returns; a RequestException, HTTPError included, is logged and [] returned
get_all_jobs(response) ==
    IF response.kind # "response" \/ raise_for_status(response)
    THEN [err |-> "", value |-> <<>>]
    ELSE [err |-> "", value |-> response.body]

\* list_jobs: the same request, outside any try
list_jobs(response) ==
    IF response.kind # "response" THEN [err |-> response.kind, value |-> <<>>]
    ELSE IF raise_for_status(response) THEN [err |-> "HTTPError", value |-> <<>>]
    ELSE [err |-> "", value |-> response.body]

---------------------------------------------------------------------------
(* Tables *)

STATUS_CHOICES == {"pending", "running", "completed", "failed"}

\* ScrapeJob.error_message: None, a text of the remote service, or one of the two
\* summaries of import_job_results
NoMessage == [kind |-> "none", text |-> "", n |-> 0, first |-> 0]
TextMessage(t) == [kind |-> "text", text |-> t, n |-> 0, first |-> 0]
\* f"Imported with {len(errors)} errors. First error: {errors[0]}"
ErrorsMessage(errors) ==
    [kind |-> "errors", text |-> "Imported with N errors. First error: Row R",
     n |-> Len(errors), first |-> errors[1]]
\* f"Skipped {duplicates_skipped} duplicate rows"
DuplicatesMessage(d) ==
    [kind |-> "duplicates", text |-> "Skipped N duplicate rows", n |-> d, first |-> 0]

\* A new ScrapeJob row: the field defaults of the model, created_at from auto_now_add
NewJob(external_id, status, completed_at) ==
    [external_id |-> external_id, status |-> status, error_message |-> NoMessage,
     leads_count |-> 0, csv_file_path |-> 0, created_at |-> now,
     completed_at |-> completed_at]

ExternalIds == {jobs[j].external_id : j \in DOMAIN jobs}

\* LeadsCount, had it counted the leads of every job
LeadsCountOfAllJobs(table, j) == Len(table)

\* job.leads.count(), on a GmapsLead table
LeadsCount(table, j) == Cardinality({i \in DOMAIN table : table[i].job = j})

---------------------------------------------------------------------------
(* CSV rows.  A row holds the raw text of each column that the import reads; *)
(* None is a column the row does not reach (csv.DictReader's restval).       *)

\* find_existing_lead, had it looked the raw column text up instead of the
\* normalized keys
find_existing_lead_raw(table, row, j) ==
    \/ Truthy(row.cid) /\ \E i \in DOMAIN table : table[i].job = j /\ table[i].cid = row.cid
    \/ Truthy(row.data_id) /\ \E i \in DOMAIN table : table[i].job = j /\ table[i].data_id = row.data_id
    \/ Truthy(row.link) /\ \E i \in DOMAIN table : table[i].job = j /\ table[i].link = row.link

\* find_existing_lead, had it looked among the leads of every job
find_existing_lead_of_any_job(table, row, j) ==
    LET cid == normalize_str(row.cid, CidMaxLen)
        data_id == normalize_str(row.data_id, DataIdMaxLen)
        link == normalize_str(row.link, LinkMaxLen)
    IN  \/ Truthy(cid) /\ \E i \in DOMAIN table : table[i].cid = cid
        \/ Truthy(data_id) /\ \E i \in DOMAIN table : table[i].data_id = data_id
        \/ Truthy(link) /\ \E i \in DOMAIN table : table[i].link = link

find_existing_lead(table, row, j) ==
    LET cid == normalize_str(row.cid, CidMaxLen)
        data_id == normalize_str(row.data_id, DataIdMaxLen)
        link == normalize_str(row.link, LinkMaxLen)
    IN  \/ Truthy(cid) /\ \E i \in DOMAIN table : table[i].job = j /\ table[i].cid = cid
        \/ Truthy(data_id) /\ \E i \in DOMAIN table : table[i].job = j /\ table[i].data_id = data_id
        \/ Truthy(link) /\ \E i \in DOMAIN table : table[i].job = j /\ table[i].link = link

\* The statements of the try block that can raise: int(), float() and the slice of
\* a title that is None
RowRaises(row) ==
    \/ Truthy(row.review_count) /\ ~IntParses(row.review_count)
    \/ Truthy(row.review_rating) /\ ~FloatParses(row.review_rating)
    \/ Truthy(row.latitude) /\ ~FloatParses(row.latitude)
    \/ Truthy(row.longitude) /\ ~FloatParses(row.longitude)
    \/ row.title = None

\* <<created, lead>>: the except clause turns every exception into a None return
create_lead_from_csv_row(row, j) ==
    IF RowRaises(row) THEN <<FALSE, <<>>>>
    ELSE <<TRUE,
           [job |-> j,
            cid |-> normalize_str(row.cid, CidMaxLen),
            data_id |-> normalize_str(row.data_id, DataIdMaxLen),
            link |-> normalize_str(row.link, LinkMaxLen),
            title |-> Slice(row.title, TitleMaxLen),
            review_count |-> IF Truthy(row.review_count) THEN IntValue(strip(row.review_count)) ELSE 0]>>

\* ImportRows, had the exception of a failing row left the loop
RECURSIVE ImportRowsAbortOnError(_, _, _, _)
ImportRowsAbortOnError(acc, csv, k, j) ==
    IF k > Len(csv) THEN acc
    ELSE IF find_existing_lead(acc.table, csv[k], j)
         THEN ImportRowsAbortOnError([acc EXCEPT !.duplicates_skipped = @ + 1,
                     !.outcomes = Append(@, "duplicate")], csv, k + 1, j)
         ELSE LET made == create_lead_from_csv_row(csv[k], j) IN
              IF made[1]
              THEN ImportRowsAbortOnError([acc EXCEPT !.table = Append(@, made[2]),
                                                      !.leads_created = @ + 1,
                                                      !.outcomes = Append(@, "created")],
                                          csv, k + 1, j)
              ELSE [acc EXCEPT !.rows_failed = @ + 1, !.outcomes = Append(@, "failed")]

\* The for loop of import_job_results over rows k..Len(csv) (row_num is k + 1), from
\* the locals acc = [table, leads_created, duplicates_skipped, errors].  Nothing
\* escapes _find_existing_lead or _create_lead_from_csv_row, so the except clause
\* of the loop never runs and errors stays as it is.  rows_failed is a history
\* count of the rows for which _create_lead_from_csv_row returned None, and
\* outcomes the history of what became of each row.
RECURSIVE ImportRows(_, _, _, _)
ImportRows(acc, csv, k, j) ==
    IF k > Len(csv) THEN acc
    ELSE IF find_existing_lead(acc.table, csv[k], j)
         THEN ImportRows([acc EXCEPT !.duplicates_skipped = @ + 1,
                     !.outcomes = Append(@, "duplicate")], csv, k + 1, j)
         ELSE LET made == create_lead_from_csv_row(csv[k], j) IN
              IF made[1]
              THEN ImportRows([acc EXCEPT !.table = Append(@, made[2]),
                                          !.leads_created = @ + 1,
                                          !.outcomes = Append(@, "created")], csv, k + 1, j)
              ELSE ImportRows([acc EXCEPT !.rows_failed = @ + 1,
                                          !.outcomes = Append(@, "failed")], csv, k + 1, j)

\* What import_job_results hands back, on the tables T = [jobs, leads]: the tables
\* afterwards, the exception raised ("" when it returns) and the number returned
Outcome(table, rows, err, result, rows_failed, outcomes) ==
    [jobs |-> table, leads |-> rows, err |-> err, result |-> result,
     rows_failed |-> rows_failed, outcomes |-> outcomes]

\* RaiseValueError, had the failure been recorded on the job before raising
RaiseAfterMarkingFailed(T, j, msg) ==
    Outcome([T.jobs EXCEPT ![j].status = "failed", ![j].error_message = TextMessage(msg)],
            T.leads, msg, 0, 0, <<>>)

\* raise ValueError(msg) before anything was written
RaiseValueError(T, j, msg) == Outcome(T.jobs, T.leads, msg, 0, 0, <<>>)

\* import_job_results.  env is what the remote service answers: get_job's payload,
\* whether the download gave a file, and the rows of that file.
import_job_results(T, j, env) ==
    LET ready == is_job_ready(env.payload) IN
    IF ~ready[1]
    THEN IF ready[2] = "failed" THEN RaiseValueError(T, j, "Job failed, cannot import results")
         ELSE IF ready[2] = "not_found" THEN RaiseValueError(T, j, "Job not found in API")
         ELSE IF ready[2] = "pending"
         THEN RaiseValueError(T, j, "Job not ready yet (status: pending). Please wait and try again.")
         ELSE RaiseValueError(T, j, "Job not ready yet (status: running). Please wait and try again.")
    ELSE IF ~env.downloaded
    THEN RaiseValueError(T, j, "Failed to download CSV file. Job may not be ready yet.")
    ELSE LET acc == ImportRows([table |-> T.leads, leads_created |-> 0,
                                duplicates_skipped |-> 0, errors |-> <<>>,
                                rows_failed |-> 0, outcomes |-> <<>>], env.csv, 1, j)
             job == T.jobs[j]
             saved == [job EXCEPT
                 !.leads_count = LeadsCount(acc.table, j),
                 !.status = "completed",
                 !.completed_at = IF job.completed_at # NoTime THEN job.completed_at ELSE now,
                 !.csv_file_path = job.external_id,
                 !.error_message =
                     IF acc.errors # <<>> THEN ErrorsMessage(acc.errors)
                     ELSE IF acc.duplicates_skipped # 0 THEN DuplicatesMessage(acc.duplicates_skipped)
                     ELSE NoMessage]
         IN  Outcome([T.jobs EXCEPT ![j] = saved], acc.table, "", acc.leads_created,
                     acc.rows_failed, acc.outcomes)

\* create_scrape_job, had it created the row before calling the API
create_scrape_job_row_first(table, answer) ==
    IF ~answer.http_ok
    THEN [jobs |-> Append(table, NewJob(0, "pending", NoTime)), err |-> "RequestException", job |-> 0]
    ELSE IF answer.id = 0
    THEN [jobs |-> Append(table, NewJob(0, "pending", NoTime)),
          err |-> "API did not return a job ID", job |-> 0]
    ELSE [jobs |-> Append(table, NewJob(answer.id, "pending", NoTime)), err |-> "",
          job |-> Len(table) + 1]

\* create_scrape_job on the ScrapeJob table: the row is created after the API
\* returned an id; a RequestException of create_job and the ValueError for a
\* missing id leave the function before ScrapeJob.objects.create
create_scrape_job(table, answer) ==
    IF ~answer.http_ok THEN [jobs |-> table, err |-> "RequestException", job |-> 0]
    ELSE IF answer.id = 0 THEN [jobs |-> table, err |-> "API did not return a job ID", job |-> 0]
    ELSE [jobs |-> Append(table, NewJob(answer.id, "pending", NoTime)), err |-> "",
          job |-> Len(table) + 1]

\* refresh_job_status, had its last branch written the remote's pending status
refresh_job_status_writes_pending(job, job_data, error_data) ==
    LET status == is_job_ready(job_data)[2] IN
    IF status = "not_found" THEN job
    ELSE IF status = "completed"
    THEN [job EXCEPT !.status = "completed",
                     !.completed_at = IF job.completed_at = NoTime THEN now ELSE @]
    ELSE IF status = "failed"
    THEN [job EXCEPT !.status = "failed",
                     !.error_message = IF error_data.found
                                       THEN TextMessage(Get(error_data.error, "Job failed"))
                                       ELSE @]
    ELSE [job EXCEPT !.status = status]

\* refresh_job_status, had it left completed_at alone
refresh_job_status_without_stamp(job, job_data, error_data) ==
    LET status == is_job_ready(job_data)[2] IN
    IF status = "not_found" THEN job
    ELSE IF status = "completed" THEN [job EXCEPT !.status = "completed"]
    ELSE IF status = "failed"
    THEN [job EXCEPT !.status = "failed",
                     !.error_message = IF error_data.found
                                       THEN TextMessage(Get(error_data.error, "Job failed"))
                                       ELSE @]
    ELSE IF status = "running" THEN [job EXCEPT !.status = "running"]
    ELSE job

\* refresh_job_status, had it stamped completed_at at every completed answer
refresh_job_status_restamps(job, job_data, error_data) ==
    LET status == is_job_ready(job_data)[2] IN
    IF status = "not_found" THEN job
    ELSE IF status = "completed"
    THEN [job EXCEPT !.status = "completed", !.completed_at = now]
    ELSE IF status = "failed"
    THEN [job EXCEPT !.status = "failed",
                     !.error_message = IF error_data.found
                                       THEN TextMessage(Get(error_data.error, "Job failed"))
                                       ELSE @]
    ELSE IF status = "running" THEN [job EXCEPT !.status = "running"]
    ELSE job

\* refresh_job_status on one ScrapeJob row; error_data is what the second get_job
\* call returns when the status is failed
refresh_job_status(job, job_data, error_data) ==
    LET status == is_job_ready(job_data)[2] IN
    IF status = "not_found" THEN job
    ELSE IF status = "completed"
    THEN [job EXCEPT !.status = "completed",
                     !.completed_at = IF job.completed_at = NoTime THEN now ELSE @]
    ELSE IF status = "failed"
    THEN [job EXCEPT !.status = "failed",
                     !.error_message = IF error_data.found
                                       THEN TextMessage(Get(error_data.error, "Job failed"))
                                       ELSE @]
    ELSE IF status = "running" THEN [job EXCEPT !.status = "running"]
    ELSE job

---------------------------------------------------------------------------
(* sync_scraper_jobs and the admin view sync_from_api_view *)

\* status_map.get(word, default)
status_map_get(word, default) ==
    CASE word \in {"pending", "running", "completed", "failed"} -> word
      [] word \in {"done", "ok"} -> "completed"
      [] OTHER -> default

JobWith(table, external_id) == CHOOSE j \in DOMAIN table : table[j].external_id = external_id

DeleteLeads(table, j) == SelectSeq(table, LAMBDA l : l.job # j)

\* import_job_results inside the try/except of the command: an exception is
\* printed and the loop goes on
TryImport(T, j, env) ==
    LET r == import_job_results([jobs |-> T.jobs, leads |-> T.leads], j, env) IN
    [jobs |-> r.jobs, leads |-> r.leads,
     imported_leads |-> T.imported_leads + (IF r.err = "" THEN r.result ELSE 0)]

\* One pass of the for loop of Command.handle over api_jobs[k], with the option
\* flags opt and, for the k-th job, the answers envs[k] an import would get
RECURSIVE sync_scraper_jobs(_, _, _, _, _, _)
sync_scraper_jobs(T, api_jobs, envs, k, existing_ids, opt) ==
    IF k > Len(api_jobs) THEN T
    ELSE LET api_job == api_jobs[k]
             Rest(T1) == sync_scraper_jobs(T1, api_jobs, envs, k + 1, existing_ids, opt)
         IN
         IF api_job.ID = 0 \/ opt.dry_run THEN Rest(T)
         ELSE IF api_job.ID \in existing_ids
         THEN LET j == JobWith(T.jobs, api_job.ID)
                  old_status == T.jobs[j].status
                  new_status == status_map_get(Lower(api_job.Status), Lower(api_job.Status))
                  T1 == IF old_status # new_status
                        THEN [T EXCEPT !.jobs[j].status = new_status,
                                       !.jobs[j].completed_at =
                                           IF new_status = "completed" THEN now ELSE @]
                        ELSE T
                  T2 == IF opt.force_reimport /\ T1.jobs[j].leads_count > 0
                        THEN [T1 EXCEPT !.leads = DeleteLeads(@, j), !.jobs[j].leads_count = 0]
                        ELSE T1
              IN  IF opt.import_leads /\ new_status = "completed"
                     /\ (T1.jobs[j].leads_count = 0 \/ opt.force_reimport)
                  THEN Rest(TryImport(T2, j, envs[k]))
                  ELSE Rest(T1)
         ELSE LET status == status_map_get(Lower(api_job.Status), "pending")
                  j == Len(T.jobs) + 1
                  T1 == [T EXCEPT !.jobs = Append(@, NewJob(api_job.ID, status,
                                       IF status = "completed" THEN now ELSE NoTime))]
              IN  IF opt.import_leads /\ status = "completed"
                  THEN Rest(TryImport(T1, j, envs[k]))
                  ELSE Rest(T1)

\* The for loop of ScrapeJobAdmin.sync_from_api_view over api_jobs[k]
RECURSIVE sync_from_api_view(_, _, _, _)
sync_from_api_view(table, api_jobs, k, existing_ids) ==
    IF k > Len(api_jobs) THEN table
    ELSE LET api_job == api_jobs[k]
             status == status_map_get(Lower(api_job.Status), "pending")
         IN
         IF api_job.ID = 0 THEN sync_from_api_view(table, api_jobs, k + 1, existing_ids)
         ELSE IF api_job.ID \in existing_ids
         THEN LET j == JobWith(table, api_job.ID) IN
              sync_from_api_view(
                  IF table[j].status # status
                  THEN [table EXCEPT ![j].status = status,
                                     ![j].completed_at = IF status = "completed" THEN now ELSE @]
                  ELSE table,
                  api_jobs, k + 1, existing_ids)
         ELSE sync_from_api_view(
                  Append(table, NewJob(api_job.ID, status,
                                       IF status = "completed" THEN now ELSE NoTime)),
                  api_jobs, k + 1, existing_ids)

---------------------------------------------------------------------------
(* Text of web pages: strings are tuples of characters, ordered as Python    *)
(* orders them (by code point)                                               *)

\* The characters of the pages below, in code point order
Chars ==
    <<
      " ", "%", "+", "-", ".", "/", "0", "1", "2", "3", "4", "5", "6", "7", "8", "9",
      ":", "?", "@", "A", "B", "C", "D", "E", "F", "G", "H", "I", "J", "K", "L", "M",
      "N", "O", "P", "Q", "R", "S", "T", "U", "V", "W", "X", "Y", "Z", "_", "a", "b",
      "c", "d", "e", "f", "g", "h", "i", "j", "k", "l", "m", "n", "o", "p", "q", "r",
      "s", "t", "u", "v", "w", "x", "y", "z"
    >>

Ord(c) == CHOOSE i \in 1..Len(Chars) : Chars[i] = c

UpperLetters == {Chars[i] : i \in 20..45}
LowerLetters == {Chars[i] : i \in 47..72}
Letters == UpperLetters \cup LowerLetters

\* str.lower()
lower(s) == [i \in 1..Len(s) |-> IF s[i] \in UpperLetters THEN Chars[Ord(s[i]) + 27] ELSE s[i]]

\* a < b on strings
StrLess(a, b) ==
    \E k \in 1..(Len(b)) :
        /\ \A i \in 1..(k - 1) : i <= Len(a) /\ a[i] = b[i]
        /\ \/ k = Len(a) + 1
           \/ k <= Len(a) /\ Ord(a[k]) < Ord(b[k])

\* sorted(list(S)) for a set S of strings
RECURSIVE sorted(_)
sorted(S) ==
    IF S = {} THEN <<>>
    ELSE LET m == CHOOSE x \in S : \A y \in S \ {x} : StrLess(x, y)
         IN  <<m>> \o sorted(S \ {m})

\* sub in s
Contains(s, sub) ==
    \E i \in 1..(Len(s) - Len(sub) + 1) : SubSeq(s, i, i + Len(sub) - 1) = sub

\* s.startswith(prefix)
StartsWith(s, prefix) == Len(s) >= Len(prefix) /\ SubSeq(s, 1, Len(prefix)) = prefix

\* s[n:]
Drop(s, n) == IF Len(s) > n THEN SubSeq(s, n + 1, Len(s)) ELSE <<>>

\* The index of the first character of s at or after i that is outside class,
\* Len(s) + 1 if there is none
RunEnd(s, i, class) ==
    LET stops == {k \in i..Len(s) : s[k] \notin class} \cup {Len(s) + 1}
    IN  CHOOSE k \in stops : \A m \in stops : k <= m

\* s.find(c) from position i on, Len(s) + 1 if c is not there
Find(s, i, c) ==
    LET hits == {k \in i..Len(s) : s[k] = c} \cup {Len(s) + 1}
    IN  CHOOSE k \in hits : \A m \in hits : k <= m

\* s.split(sep)[0], for a one-character separator
BeforeFirst(s, sep) == SubSeq(s, 1, Find(s, 1, sep) - 1)

\* re.sub(r'\s+', ' ', s)
RECURSIVE CollapseSpaces(_)
CollapseSpaces(s) ==
    IF Len(s) <= 1 THEN s
    ELSE LET half == Len(s) \div 2
             left == CollapseSpaces(SubSeq(s, 1, half))
             right == CollapseSpaces(SubSeq(s, half + 1, Len(s)))
         IN  IF left[Len(left)] = SP /\ Head(right) = SP THEN left \o Tail(right)
             ELSE left \o right

\* sep.join(parts)
RECURSIVE Join(_, _)
Join(parts, sep) ==
    IF parts = <<>> THEN <<>>
    ELSE IF Len(parts) = 1 THEN parts[1]
    ELSE parts[1] \o sep \o Join(Tail(parts), sep)

\* EMAIL_PATTERN = [a-zA-Z0-9._%+-]+@[a-zA-Z0-9.-]+\.[a-zA-Z]{2,}
EmailLocalChars == Letters \cup Digits \cup {".", "_", "%", "+", "-"}
EmailDomainChars == Letters \cup Digits \cup {".", "-"}

\* The end of the match of EMAIL_PATTERN that starts at s[i], 0 if there is none:
\* the local part runs up to the @, the domain part is greedy and gives back
\* characters until a dot with two letters behind it is found
EmailMatchEnd(s, i) ==
    LET at == RunEnd(s, i, EmailLocalChars)
        r == RunEnd(s, at + 1, EmailDomainChars) - 1
        dots == {d \in (at + 2)..(r - 2) :
                    s[d] = "." /\ s[d + 1] \in Letters /\ s[d + 2] \in Letters}
    IN  IF at = i \/ at > Len(s) \/ s[at] # "@" \/ dots = {} THEN 0
        ELSE LET d == CHOOSE x \in dots : \A y \in dots : y <= x
             IN  RunEnd(s, d + 1, Letters) - 1

\* EMAIL_PATTERN.findall(s), from position i on
RECURSIVE EmailFindall(_, _)
EmailFindall(s, i) ==
    LET starts == {k \in i..Len(s) : EmailMatchEnd(s, k) # 0} IN
    IF starts = {} THEN <<>>
    ELSE LET b == CHOOSE k \in starts : \A m \in starts : k <= m
             e == EmailMatchEnd(s, b)
         IN  <<SubSeq(s, b, e)>> \o EmailFindall(s, e + 1)

\* EMAIL_PATTERN.match(s)
EmailMatch(s) == EmailMatchEnd(s, 1) # 0

\* PHONE_PATTERN = (?:\+90|0)?[\s.-]?\d{3}[\s.-]?\d{3}[\s.-]?\d{2}[\s.-]?\d{2}
PhoneSeparators == {SP, ".", "-"}

\* The end of the match of the digit groups from s[i] on, each behind an optional
\* separator, 0 if there is none
RECURSIVE PhoneGroups(_, _, _)
PhoneGroups(s, i, groups) ==
    IF groups = <<>> THEN i - 1
    ELSE LET p == IF i <= Len(s) /\ s[i] \in PhoneSeparators THEN i + 1 ELSE i
             q == p + Head(groups) - 1
         IN  IF q <= Len(s) /\ \A k \in p..q : s[k] \in Digits
             THEN PhoneGroups(s, q + 1, Tail(groups))
             ELSE 0

\* The end of the match of PHONE_PATTERN that starts at s[i], 0 if there is none:
\* the prefix +90, then the prefix 0, then no prefix are tried in turn
PhoneMatchEnd(s, i) ==
    LET plus == IF StartsWith(Drop(s, i - 1), <<"+", "9", "0">>)
                THEN PhoneGroups(s, i + 3, <<3, 3, 2, 2>>) ELSE 0
        zero == IF s[i] = "0" THEN PhoneGroups(s, i + 1, <<3, 3, 2, 2>>) ELSE 0
    IN  IF plus # 0 THEN plus
        ELSE IF zero # 0 THEN zero
        ELSE PhoneGroups(s, i, <<3, 3, 2, 2>>)

\* PHONE_PATTERN.findall(s), from position i on
RECURSIVE PhoneFindall(_, _)
PhoneFindall(s, i) ==
    LET starts == {k \in i..Len(s) : PhoneMatchEnd(s, k) # 0} IN
    IF starts = {} THEN <<>>
    ELSE LET b == CHOOSE k \in starts : \A m \in starts : k <= m
             e == PhoneMatchEnd(s, b)
         IN  <<SubSeq(s, b, e)>> \o PhoneFindall(s, e + 1)

\* str(n) for n >= 0
RECURSIVE Decimal(_)
Decimal(n) ==
    LET d == <<"0", "1", "2", "3", "4", "5", "6", "7", "8", "9">>[(n % 10) + 1]
    IN  IF n < 10 THEN <<d>> ELSE Decimal(n \div 10) \o <<d>>

---------------------------------------------------------------------------
(* The parsed document (BeautifulSoup).  An element has a tag, the text that  *)
(* stands in it before its children, the attributes the scraper reads (None   *)
(* or "" for an attribute it lacks) and its children.  The soup is the        *)
(* sequence of the top-level elements, in document order.                     *)

Element(tag, text, kids) ==
    [tag |-> tag, text |-> text, href |-> None, class |-> None, name |-> "",
     property |-> "", content |-> None, kids |-> kids]

\* The elements of a list of trees in document order
RECURSIVE Flatten(_)
Flatten(nodes) ==
    IF nodes = <<>> THEN <<>>
    ELSE <<Head(nodes)>> \o Flatten(Head(nodes).kids) \o Flatten(Tail(nodes))

\* element.decompose() for every element whose tag is in tags
RECURSIVE Decompose(_, _)
Decompose(nodes, tags) ==
    IF nodes = <<>> THEN <<>>
    ELSE IF Head(nodes).tag \in tags THEN Decompose(Tail(nodes), tags)
    ELSE <<[Head(nodes) EXCEPT !.kids = Decompose(@, tags)]>> \o Decompose(Tail(nodes), tags)

\* The text strings below a list of trees, in document order
RECURSIVE Strings(_)
Strings(nodes) ==
    IF nodes = <<>> THEN <<>>
    ELSE <<Head(nodes).text>> \o Strings(Head(nodes).kids) \o Strings(Tail(nodes))

\* get_text(separator=sep, strip=True): the stripped strings that are not empty,
\* joined
RECURSIVE StripAll(_)
StripAll(strings) ==
    IF strings = <<>> THEN <<>>
    ELSE LET t == strip(Head(strings)) IN
         (IF t = <<>> THEN <<>> ELSE <<t>>) \o StripAll(Tail(strings))

get_text(nodes, sep) == Join(StripAll(Strings(nodes)), sep)

\* soup.find(...): the first element in document order that satisfies Test, as a
\* one-element list, or the empty list
FindFirst(nodes, Test(_)) ==
    LET found == SelectSeq(Flatten(nodes), Test) IN
    IF found = <<>> THEN <<>> ELSE <<Head(found)>>

\* The markup the document was parsed from, with the tag and attribute names left
\* out: they hold nothing the two patterns match
RECURSIVE Markup(_)
Markup(nodes) ==
    IF nodes = <<>> THEN <<>>
    ELSE LET n == Head(nodes) IN
         <<"<">> \o (IF n.href = None THEN <<>> ELSE n.href) \o <<"=">>
           \o (IF n.content = None THEN <<>> ELSE n.content) \o <<">">>
           \o n.text \o Markup(n.kids) \o <<"<", "/", ">">> \o Markup(Tail(nodes))

---------------------------------------------------------------------------
(* WebsiteScraper: the extraction methods.  The two that call decompose()     *)
(* hand back the soup they leave behind together with their value.           *)

\* The false positives _extract_emails filters out of the matches in the markup
EmailDenyList ==
    {<<"e", "x", "a", "m", "p", "l", "e", ".", "c", "o", "m">>,
     <<"d", "o", "m", "a", "i", "n", ".", "c", "o", "m">>,
     <<"e", "m", "a", "i", "l", ".", "c", "o", "m">>,
     <<"t", "e", "s", "t", ".", "c", "o", "m">>,
     <<".", "p", "n", "g">>,
     <<".", "j", "p", "g">>,
     <<".", "g", "i", "f">>,
     <<".", "c", "s", "s">>,
     <<".", "j", "s">>}

MailtoPrefix == <<"m", "a", "i", "l", "t", "o", ":">>

HasHref(n) == n.tag = "a" /\ n.href # None

_extract_emails(soup, html) ==
    LET found == EmailFindall(html, 1)
        in_markup == {email \in {lower(found[i]) : i \in DOMAIN found} :
                         ~\E x \in EmailDenyList : Contains(email, x)}
        links == SelectSeq(Flatten(soup), HasHref)
        targets == {lower(BeforeFirst(Drop(links[i].href, 7), "?")) :
                       i \in {k \in DOMAIN links : StartsWith(links[k].href, MailtoPrefix)}}
        in_mailto == {email \in targets : EmailMatch(email)}
    IN  sorted(in_markup \cup in_mailto)

_extract_title(soup) ==
    LET title_tag == FindFirst(soup, LAMBDA n : n.tag = "title") IN
    IF title_tag # <<>> THEN Slice(get_text(title_tag, <<>>), 500) ELSE None

\* f'og:{name}'
OgName(name) ==
    CASE name = "description" -> "og:description"
      [] name = "keywords" -> "og:keywords"

\* meta.get('content', '')
ContentOf(meta) == IF meta.content = None THEN <<>> ELSE meta.content

_extract_meta(soup, name) ==
    LET by_name == FindFirst(soup, LAMBDA n : n.tag = "meta" /\ n.name = name)
        by_property == FindFirst(soup, LAMBDA n : n.tag = "meta" /\ n.property = OgName(name))
    IN  IF by_name # <<>> THEN Slice(ContentOf(by_name[1]), 1000)
        ELSE IF by_property # <<>> THEN Slice(ContentOf(by_property[1]), 1000)
        ELSE None

HeadingTags == {"h1", "h2", "h3", "h4", "h5", "h6"}

\* found, for one heading tag
HeadingsFound(soup, tag) ==
    LET hs == SelectSeq(Flatten(soup), LAMBDA n : n.tag = tag)
        texts == [i \in DOMAIN hs |-> get_text(<<hs[i]>>, <<>>)]
        kept == SelectSeq(texts, LAMBDA text : text # <<>> /\ Len(text) > 1)
    IN  [i \in DOMAIN kept |-> Slice(kept[i], 200)]

_extract_headings(soup) ==
    [tag \in {t \in HeadingTags : HeadingsFound(soup, t) # <<>>} |->
        Slice(HeadingsFound(soup, tag), 20)]

\* class_=re.compile(words, re.I): the class attribute holds one of the words
ClassMatches(n, words) ==
    n.class # None /\ \E w \in words : Contains(lower(n.class), w)

ContentClasses == {<<"c", "o", "n", "t", "e", "n", "t">>, <<"m", "a", "i", "n">>, <<"b", "o", "d", "y">>}
NavClasses == {<<"n", "a", "v">>, <<"m", "e", "n", "u">>, <<"n", "a", "v", "i", "g", "a", "t", "i", "o", "n">>}

_extract_paragraphs(soup) ==
    LET left == Decompose(soup, {"script", "style", "nav", "header", "footer", "aside"})
        main_tag == FindFirst(left, LAMBDA n : n.tag = "main")
        article == FindFirst(left, LAMBDA n : n.tag = "article")
        div == FindFirst(left, LAMBDA n : n.tag = "div" /\ ClassMatches(n, ContentClasses))
        main == IF main_tag # <<>> THEN main_tag ELSE IF article # <<>> THEN article ELSE div
        search_in == IF main # <<>> THEN main[1].kids ELSE left
        ps == SelectSeq(Flatten(search_in), LAMBDA n : n.tag = "p")
        texts == [i \in DOMAIN ps |-> get_text(<<ps[i]>>, <<>>)]
        kept == SelectSeq(texts, LAMBDA text : text # <<>> /\ Len(text) > 30)
    IN  [value |-> Slice([i \in DOMAIN kept |-> Slice(kept[i], 1000)], 50), soup |-> left]

_extract_navigation(soup) ==
    LET nav_tag == FindFirst(soup, LAMBDA n : n.tag = "nav")
        nav == IF nav_tag # <<>> THEN nav_tag ELSE FindFirst(soup, LAMBDA n : ClassMatches(n, NavClasses))
        links == IF nav = <<>> THEN <<>> ELSE Slice(SelectSeq(Flatten(nav[1].kids), HasHref), 30)
        kept == SelectSeq(links, LAMBDA link : get_text(<<link>>, <<>>) # <<>>
                                                 /\ Len(get_text(<<link>>, <<>>)) < 50)
    IN  [i \in DOMAIN kept |-> [text |-> get_text(<<kept[i]>>, <<>>), href |-> kept[i].href]]

_extract_footer(soup) ==
    LET footer == FindFirst(soup, LAMBDA n : n.tag = "footer") IN
    IF footer # <<>>
    THEN LET text == get_text(footer, <<SP>>) IN
         IF text # <<>> THEN Slice(text, 2000) ELSE None
    ELSE None

_extract_phones(html) ==
    LET found == PhoneFindall(html, 1)
        cleaned == [i \in DOMAIN found |-> SelectSeq(found[i], LAMBDA c : c \notin PhoneSeparators)]
    IN  Slice(sorted({cleaned[i] : i \in {k \in DOMAIN cleaned : Len(cleaned[k]) >= 10}}), 10)

\* SOCIAL_DOMAINS, in the order the dict is iterated
SOCIAL_DOMAINS ==
    <<[domain |-> <<"f", "a", "c", "e", "b", "o", "o", "k", ".", "c", "o", "m">>, name |-> "facebook"],
      [domain |-> <<"f", "b", ".", "c", "o", "m">>, name |-> "facebook"],
      [domain |-> <<"t", "w", "i", "t", "t", "e", "r", ".", "c", "o", "m">>, name |-> "twitter"],
      [domain |-> <<"x", ".", "c", "o", "m">>, name |-> "twitter"],
      [domain |-> <<"i", "n", "s", "t", "a", "g", "r", "a", "m", ".", "c", "o", "m">>, name |-> "instagram"],
      [domain |-> <<"l", "i", "n", "k", "e", "d", "i", "n", ".", "c", "o", "m">>, name |-> "linkedin"],
      [domain |-> <<"y", "o", "u", "t", "u", "b", "e", ".", "c", "o", "m">>, name |-> "youtube"],
      [domain |-> <<"t", "i", "k", "t", "o", "k", ".", "c", "o", "m">>, name |-> "tiktok"],
      [domain |-> <<"p", "i", "n", "t", "e", "r", "e", "s", "t", ".", "c", "o", "m">>, name |-> "pinterest"],
      [domain |-> <<"w", "h", "a", "t", "s", "a", "p", "p", ".", "c", "o", "m">>, name |-> "whatsapp"]>>

\* The index of the first character of s at or after i that is in class,
\* Len(s) + 1 if there is none
FindAny(s, i, class) ==
    LET hits == {k \in i..Len(s) : s[k] \in class} \cup {Len(s) + 1}
    IN  CHOOSE k \in hits : \A m \in hits : k <= m

\* s.replace(sub, '')
RECURSIVE Remove(_, _)
Remove(s, sub) ==
    IF Len(s) < Len(sub) THEN s
    ELSE IF StartsWith(s, sub) THEN Remove(Drop(s, Len(sub)), sub)
    ELSE <<Head(s)>> \o Remove(Tail(s), sub)

\* urlparse(href).netloc: what stands between the // behind the scheme, if the
\* url has one, and the next /, ? or #
Netloc(href) ==
    LET colon == Find(href, 1, ":")
        has_scheme == /\ colon > 1 /\ colon <= Len(href)
                      /\ href[1] \in Letters
                      /\ \A i \in 1..(colon - 1) : href[i] \in Letters \cup Digits \cup {"+", "-", "."}
        rest == IF has_scheme THEN Drop(href, colon) ELSE href
    IN  IF StartsWith(rest, <<"/", "/">>)
        THEN SubSeq(rest, 3, FindAny(rest, 3, {"/", "?", "#"}) - 1)
        ELSE <<>>

\* The for loop of _extract_social_links over links[k..], from the dict social
RECURSIVE SocialLinks(_, _, _)
SocialLinks(social, links, k) ==
    IF k > Len(links) THEN social
    ELSE LET href == links[k].href
             domain == Remove(lower(Netloc(href)), <<"w", "w", "w", ".">>)
             hits == {i \in DOMAIN SOCIAL_DOMAINS : Contains(domain, SOCIAL_DOMAINS[i].domain)}
         IN  IF hits = {} THEN SocialLinks(social, links, k + 1)
             ELSE LET first == CHOOSE i \in hits : \A j \in hits : i <= j
                      social_name == SOCIAL_DOMAINS[first].name
                  IN  IF social_name \in DOMAIN social THEN SocialLinks(social, links, k + 1)
                      ELSE SocialLinks((social_name :> href) @@ social, links, k + 1)

_extract_social_links(soup, base_url) ==
    SocialLinks(<<>>, SelectSeq(Flatten(soup), HasHref), 1)

_extract_full_text(soup) ==
    LET left == Decompose(soup, {"script", "style", "noscript", "iframe"})
        text == CollapseSpaces(get_text(left, <<SP>>))
    IN  [value |-> IF text # <<>> THEN Slice(text, 50000) ELSE None, soup |-> left]

---------------------------------------------------------------------------
(* WebsiteScraper.scrape and scrape_lead_website *)

\* http_status_code when there was no response
NoStatusCode == 0

\* What session.get meets at the lead's website: a timeout, another
\* RequestException (text is str(e)), or a response with its status code, final
\* url and Content-Type header (None when it has none), whose body is an HTML
\* document (soup is what BeautifulSoup parses it to), breaks off while it is
\* read ("timeout", "error") or makes the parser raise ("unparsable")
Answer(kind, text, status_code, content_type, body, soup) ==
    [kind |-> kind, text |-> text, status_code |-> status_code, final_url |-> <<"u">>,
     content_type |-> content_type, body |-> body, soup |-> soup]

\* The url that is fetched: https:// is put before a url without scheme
RequestUrl(url) ==
    IF StartsWith(url, <<"h", "t", "t", "p", ":", "/", "/">>) \/ StartsWith(url, <<"h", "t", "t", "p", "s", ":", "/", "/">>)
    THEN url
    ELSE <<"h", "t", "t", "p", "s", ":", "/", "/">> \o url

\* The result dict as scrape starts with it; raw_html and addresses, which
\* scrape_lead_website does not store, are left out
NewResult(url) ==
    [url |-> url, final_url |-> None, status |-> "pending", error_message |-> None,
     http_status_code |-> NoStatusCode, emails |-> <<>>, page_title |-> None,
     meta_description |-> None, meta_keywords |-> None, headings |-> <<>>,
     paragraphs |-> <<>>, navigation_links |-> <<>>, footer_content |-> None,
     phone_numbers |-> <<>>, social_links |-> <<>>, full_text |-> None]

\* Failed, had it left the error message out
FailedWithoutMessage(result, error_message) == [result EXCEPT !.status = "failed"]

\* result['status'] = 'failed'; result['error_message'] = ...
Failed(result, error_message) ==
    [result EXCEPT !.status = "failed", !.error_message = error_message]

\* StatusOf, had it taken every parsed page for a page with content
StatusOfAnyPage(full_text) == "completed"

\* 'completed' if result['full_text'] else 'no_content'
StatusOf(full_text) == IF Truthy(full_text) THEN "completed" ELSE "no_content"

\* The result dict after the extraction block of scrape: paragraphs and full_text
\* are what _extract_paragraphs and _extract_full_text handed back, and the
\* methods called after _extract_paragraphs work on the soup it left
Extracted(result, soup, html, url, paragraphs, full_text) ==
        [result EXCEPT
            !.emails = _extract_emails(soup, html),
            !.page_title = _extract_title(soup),
            !.meta_description = _extract_meta(soup, "description"),
            !.meta_keywords = _extract_meta(soup, "keywords"),
            !.headings = _extract_headings(soup),
            !.paragraphs = paragraphs.value,
            !.navigation_links = _extract_navigation(paragraphs.soup),
            !.footer_content = _extract_footer(paragraphs.soup),
            !.phone_numbers = _extract_phones(html),
            !.social_links = _extract_social_links(paragraphs.soup, url),
            !.full_text = full_text.value,
            !.status = StatusOf(full_text.value)]

\* The extraction block of scrape: the methods in the order they are called, each
\* on the soup the one before it left
ExtractAfterParagraphs(result, soup, html, url, paragraphs) ==
    Extracted(result, soup, html, url, paragraphs, _extract_full_text(paragraphs.soup))

Extract(result, soup, html, url) ==
    ExtractAfterParagraphs(result, soup, html, url, _extract_paragraphs(soup))

scrape(url, answer) ==
    LET result == NewResult(url)
        got == [result EXCEPT !.http_status_code = answer.status_code,
                              !.final_url = answer.final_url]
        content_type == IF answer.content_type = None THEN <<>> ELSE answer.content_type
    IN  IF answer.kind = "timeout" THEN Failed(result, <<"C", "o", "n", "n", "e", "c", "t", "i", "o", "n", " ", "t", "i", "m", "e", "o", "u", "t">>)
        ELSE IF answer.kind = "error" THEN Failed(result, Slice(answer.text, 500))
        ELSE IF answer.status_code # 200
        THEN Failed(got, <<"H", "T", "T", "P", " ">> \o Decimal(answer.status_code))
        ELSE IF ~Contains(lower(content_type), <<"t", "e", "x", "t", "/", "h", "t", "m", "l">>)
        THEN Failed(got, <<"N", "o", "t", " ", "H", "T", "M", "L", ":", " ">> \o content_type)
        ELSE IF answer.body = "timeout" THEN Failed(got, <<"C", "o", "n", "n", "e", "c", "t", "i", "o", "n", " ", "t", "i", "m", "e", "o", "u", "t">>)
        ELSE IF answer.body = "error" THEN Failed(got, Slice(answer.text, 500))
        ELSE IF answer.body = "unparsable"
        THEN Failed(got, <<"E", "r", "r", "o", "r", ":", " ">> \o Slice(answer.text, 500))
        ELSE Extract(got, answer.soup, Markup(answer.soup), RequestUrl(url))

\* LeadWebsite(lead=lead), with the field defaults of the model; created_at is
\* set by the first save
NewLeadWebsite(lead) ==
    [lead |-> lead.pk, url |-> <<>>, final_url |-> None, status |-> "pending",
     error_message |-> None, http_status_code |-> NoStatusCode, emails |-> <<>>,
     emails_count |-> 0, page_title |-> None, meta_description |-> None,
     meta_keywords |-> None, headings |-> <<>>, paragraphs |-> <<>>,
     navigation_links |-> <<>>, footer_content |-> None, phone_numbers |-> <<>>,
     social_links |-> <<>>, full_text |-> None, full_text_length |-> 0,
     scraped_at |-> NoTime, created_at |-> now]

\* ExistingWebsite, had it never found the record
ExistingWebsiteNotFound(table, lead) == 0

\* LeadWebsite.objects.filter(lead=lead).first(): its primary key, 0 for None
ExistingWebsite(table, lead) ==
    IF \E i \in DOMAIN table : table[i].lead = lead.pk
    THEN CHOOSE i \in DOMAIN table : table[i].lead = lead.pk
    ELSE 0

\* ReturnsExisting, had force been taken as given
ReturnsExistingAlwaysForced(existing, force) == FALSE

\* if existing and not force
ReturnsExisting(existing, force) == existing # 0 /\ ~force

\* SaveResult, had it left emails_count and full_text_length as they were
SaveResultWithoutCounts(table, lead, existing, result) ==
         LET website_data == IF existing # 0 THEN table[existing] ELSE NewLeadWebsite(lead)
             saved == [website_data EXCEPT
                 !.url = lead.website,
                 !.final_url = result.final_url,
                 !.status = result.status,
                 !.error_message = result.error_message,
                 !.http_status_code = result.http_status_code,
                 !.emails = result.emails,
                 !.page_title = result.page_title,
                 !.meta_description = result.meta_description,
                 !.meta_keywords = result.meta_keywords,
                 !.headings = result.headings,
                 !.paragraphs = result.paragraphs,
                 !.navigation_links = result.navigation_links,
                 !.footer_content = result.footer_content,
                 !.phone_numbers = result.phone_numbers,
                 !.social_links = result.social_links,
                 !.full_text = result.full_text,
                 !.scraped_at = now]
         IN  IF existing # 0
             THEN [websites |-> [table EXCEPT ![existing] = saved], returned |-> existing,
                   fetched |-> TRUE]
             ELSE [websites |-> Append(table, saved), returned |-> Len(table) + 1,
                   fetched |-> TRUE]

\* The second half of scrape_lead_website: the record of the lead, the one found
\* (existing) or a new one, takes the fields of the result and is saved
SaveResult(table, lead, existing, result) ==
         LET website_data == IF existing # 0 THEN table[existing] ELSE NewLeadWebsite(lead)
             saved == [website_data EXCEPT
                 !.url = lead.website,
                 !.final_url = result.final_url,
                 !.status = result.status,
                 !.error_message = result.error_message,
                 !.http_status_code = result.http_status_code,
                 !.emails = result.emails,
                 !.emails_count = Len(result.emails),
                 !.page_title = result.page_title,
                 !.meta_description = result.meta_description,
                 !.meta_keywords = result.meta_keywords,
                 !.headings = result.headings,
                 !.paragraphs = result.paragraphs,
                 !.navigation_links = result.navigation_links,
                 !.footer_content = result.footer_content,
                 !.phone_numbers = result.phone_numbers,
                 !.social_links = result.social_links,
                 !.full_text = result.full_text,
                 !.full_text_length = IF result.full_text = None THEN 0 ELSE Len(result.full_text),
                 !.scraped_at = now]
         IN  IF existing # 0
             THEN [websites |-> [table EXCEPT ![existing] = saved], returned |-> existing,
                   fetched |-> TRUE]
             ELSE [websites |-> Append(table, saved), returned |-> Len(table) + 1,
                   fetched |-> TRUE]

\* scrape_lead_website on the LeadWebsite table: the table afterwards, the primary
\* key of the record returned (0 for None) and whether the website was fetched
scrape_lead_website(table, lead, force, answer) ==
    LET existing == ExistingWebsite(table, lead) IN
    IF ~Truthy(lead.website) THEN [websites |-> table, returned |-> 0, fetched |-> FALSE]
    ELSE IF ReturnsExisting(existing, force)
    THEN [websites |-> table, returned |-> existing, fetched |-> FALSE]
    ELSE SaveResult(table, lead, existing, scrape(lead.website, answer))

---------------------------------------------------------------------------
(* OpenAIKeyPool.  A key is named by its place in the pool, which is the      *)
(* order of Meta.ordering (created_at); a user by a number from 1.            *)

NoUser == 0
NoKey == 0
Users == 1..MaxUsers

\* UserN8NProfile.openai_api_key: the key it holds, EmptyKey for '', and
\* NoProfile for a user without usern8nprofile
EmptyKey == 0
NoProfile == -1

\* A row of OpenAIKeyPool
PoolKey(assigned_to, assigned_at, is_active) ==
    [assigned_to |-> assigned_to, assigned_at |-> assigned_at, is_active |-> is_active]

\* An assign_to_user call of a user: where it stands (idle, locked after the
\* select_for_update, saved after key.save, returned), the key it took, what it
\* returned (NoKey for None), the exception that left it, and the calls so far
NoAssignCall == [pc |-> "idle", key |-> NoKey, returned |-> NoKey, err |-> "", n |-> 0]

\* Available, had it left is_active out of the filter
AvailableActiveOrNot(table) == {k \in DOMAIN table : table[k].assigned_to = NoUser}

\* filter(assigned_to__isnull=True, is_active=True)
Available(table) ==
    {k \in DOMAIN table : table[k].assigned_to = NoUser /\ table[k].is_active}

\* .first(), in the order of the pool
First(S) == CHOOSE k \in S : \A m \in S : k <= m

\* RowLocked, had the select taken no lock
RowNeverLocked(cs, u, k) == FALSE

\* A transaction of another call holds the lock of select_for_update on row k
RowLocked(cs, u, k) ==
    \E v \in DOMAIN cs : v # u /\ cs[v].pc \in {"locked", "saved"} /\ cs[v].key = k

\* The unique constraint of the OneToOneField assigned_to: another row is
\* assigned to the user
AlreadyAssigned(table, user, k) ==
    \E m \in DOMAIN table : m # k /\ table[m].assigned_to = user

---------------------------------------------------------------------------
(* Inputs *)

SeqsUpTo(S, n) == UNION {[1..m -> S] : m \in 0..n}

BaseRow ==
    [cid |-> None, data_id |-> None, link |-> None, title |-> <<"t">>,
     review_count |-> <<"7">>, review_rating |-> <<"4", ".", "5">>,
     latitude |-> None, longitude |-> <<>>]

\* A cid one character longer than the cap, ending in c
LongCid(c) == [i \in 1..(CidMaxLen + 1) |-> IF i > CidMaxLen THEN c ELSE "9"]

\* Rows that differ in their dedup keys: a keyed row, the same cid with blanks
\* around it and another link, the same link under a data_id, that data_id under
\* another cid, a row whose three keys are missing or blank, and two rows whose
\* cids differ only beyond the cap
KeyRows ==
    {[BaseRow EXCEPT !.cid = <<"a">>, !.link = <<"u">>],
     [BaseRow EXCEPT !.cid = <<SP, "a", SP>>, !.link = <<"v">>],
     [BaseRow EXCEPT !.cid = <<SP>>, !.data_id = <<"d">>, !.link = <<"u">>],
     [BaseRow EXCEPT !.cid = <<"b">>, !.data_id = <<"d">>],
     [BaseRow EXCEPT !.cid = <<>>, !.link = <<SP>>],
     [BaseRow EXCEPT !.cid = LongCid("x")],
     [BaseRow EXCEPT !.cid = LongCid("y"), !.link = <<"w">>]}

\* Rows that differ in what the lead is built from: each numeric column unparsable
\* in turn, a row too short to reach the title column, and an empty title
ValueRows ==
    {[BaseRow EXCEPT !.cid = <<"b">>, !.review_count = <<"4", ".", "5">>],
     [BaseRow EXCEPT !.cid = <<"b">>, !.review_rating = <<"x">>],
     [BaseRow EXCEPT !.cid = <<"b">>, !.latitude = <<"x">>],
     [BaseRow EXCEPT !.cid = <<"b">>, !.longitude = <<"4", ".", ".">>],
     [BaseRow EXCEPT !.cid = <<"c">>, !.title = None],
     [BaseRow EXCEPT !.cid = <<"c">>, !.title = <<>>]}

\* Rows for imports into several jobs: a keyed row, its cid with blanks around it
\* and another link, its link under a data_id, and a row without keys
ScopeRows ==
    {[BaseRow EXCEPT !.cid = <<"a">>, !.link = <<"u">>],
     [BaseRow EXCEPT !.cid = <<SP, "a", SP>>, !.link = <<"v">>],
     [BaseRow EXCEPT !.cid = <<SP>>, !.data_id = <<"d">>, !.link = <<"u">>],
     [BaseRow EXCEPT !.cid = <<>>, !.link = <<SP>>]}

\* The answers an import can get: the status answer, and when that is ready
\* whether the download gave a file and, if so, its rows
ImportEnv(payload, downloaded, csv) ==
    [payload |-> payload, downloaded |-> downloaded, csv |-> csv]

ImportEnvs(answers, csvs) ==
    {ImportEnv(p, FALSE, <<>>) : p \in answers}
      \cup {ImportEnv(p, TRUE, c) : p \in {q \in answers : is_job_ready(q)[1]}, c \in csvs}

(* poll_scrape_jobs and check_and_import_ready_jobs, against the remote       *)
(* service as it stands: a job it holds has a status word, and its CSV file   *)
(* downloads or does not yet                                                  *)

RemoteJob(word, downloads) == [word |-> word, downloads |-> downloads]

\* The rows of the CSV file of a job
RemoteCsv(id) == <<[BaseRow EXCEPT !.cid = <<"a">>]>>

\* What get_job returns for the job
RemotePayload(R, id) == Payload(R[id].word, Absent, Absent)

\* What an import of the job is answered
RemoteEnv(R, id) ==
    ImportEnv(RemotePayload(R, id), R[id].downloads,
              IF R[id].downloads THEN RemoteCsv(id) ELSE <<>>)

\* timedelta(minutes=3) of check_and_import_ready_jobs, in ticks of the clock
CheckMinAge == 1

\* Selected, had the filter left the status out
SelectedOfAnyStatus(table, t, min_age) ==
    {j \in DOMAIN table : table[j].created_at <= t - min_age}

\* filter(status__in=['pending', 'running'], created_at__lte=min_age)
Selected(table, t, min_age) ==
    {j \in DOMAIN table : /\ table[j].status \in {"pending", "running"}
                          /\ table[j].created_at <= t - min_age}

\* The jobs of a set in the order of the query (Meta.ordering, -created_at; the
\* primary key breaks ties here)
RECURSIVE InQueryOrder(_, _)
InQueryOrder(table, S) ==
    IF S = {} THEN <<>>
    ELSE LET j == CHOOSE x \in S : \A y \in S :
                      \/ table[x].created_at > table[y].created_at
                      \/ table[x].created_at = table[y].created_at /\ x >= y
         IN  <<j>> \o InQueryOrder(table, S \ {j})

\* The tables after the import inside the try of _process_job: an exception is
\* printed and logged
AfterImport(T, r) == [T EXCEPT !.jobs = r.jobs, !.leads = r.leads]

\* The tables after refresh_job_status in _process_job saved the job as
\* refreshed; contacted is the history of the jobs the remote service was asked
\* about
AfterRefresh(T, j, dry_run, R, refreshed) ==
    IF refreshed.status = "completed" /\ refreshed.leads_count = 0 /\ ~dry_run
    THEN AfterImport([T EXCEPT !.jobs[j] = refreshed, !.contacted = @ \cup {j}],
                     import_job_results([jobs |-> [T.jobs EXCEPT ![j] = refreshed],
                                         leads |-> T.leads],
                                        j, RemoteEnv(R, T.jobs[j].external_id)))
    ELSE [T EXCEPT !.jobs[j] = refreshed, !.contacted = @ \cup {j}]

\* _process_job(job, dry_run); _dry_run_import reads the remote service and
\* writes nothing
process_job(T, j, dry_run, R) ==
    AfterRefresh(T, j, dry_run, R,
                 refresh_job_status(T.jobs[j], RemotePayload(R, T.jobs[j].external_id),
                                    RemotePayload(R, T.jobs[j].external_id)))

\* The for loop of _poll_jobs over pending_jobs[k..]
RECURSIVE poll_loop(_, _, _, _, _)
poll_loop(T, pending_jobs, k, dry_run, R) ==
    IF k > Len(pending_jobs) THEN T
    ELSE poll_loop(process_job(T, pending_jobs[k], dry_run, R), pending_jobs, k + 1, dry_run, R)

\* _poll_jobs(min_age_seconds, dry_run)
poll_jobs(T, min_age, dry_run, R) ==
    poll_loop(T, InQueryOrder(T.jobs, Selected(T.jobs, now, min_age)), 1, dry_run, R)

\* check_and_import_ready_jobs(): the same loop, without a dry run
check_and_import_ready_jobs(T, R) ==
    poll_loop(T, InQueryOrder(T.jobs, Selected(T.jobs, now, CheckMinAge)), 1, FALSE, R)

\* The answers of POST /api/v1/jobs: an HTTP error, a body without id, or a body
\* with an id the service has not issued before
CreateAnswers ==
    {[http_ok |-> FALSE, id |-> 0], [http_ok |-> TRUE, id |-> 0]}
      \cup {[http_ok |-> TRUE, id |-> i] : i \in (1..MaxJobs) \ ExternalIds}

\* The answers of GET /api/v1/jobs: one entry per job in the order of their ids,
\* ID 0 for an entry without id
ListStatuses == {"Done", "failed", "working"}

Listings ==
    {l \in SeqsUpTo([ID : 0..MaxJobs, Status : ListStatuses], MaxListing) :
        \A a, b \in DOMAIN l : a < b => l[a].ID < l[b].ID}

\* The status codes of the responses to GET /api/v1/jobs
ListStatusCodes == {200, 404, 500, 503}

\* The responses to GET /api/v1/jobs, and the ways of getting none
ListResponses ==
    {ListResponse("response", c, b) : c \in ListStatusCodes, b \in Listings}
      \cup {ListResponse(k, 0, <<>>) : k \in {"ConnectionError", "Timeout"}}

\* The answers the imports of one sync_scraper_jobs run can get
SyncEnvs ==
    {ImportEnv(NotFound, FALSE, <<>>),
     ImportEnv(Payload("ok", Absent, Absent), TRUE, <<>>),
     ImportEnv(Payload("ok", Absent, Absent), TRUE, <<BaseRow>>)}

\* lead.website: missing, empty, without and with a scheme
Websites == {None, <<>>, <<"x", ".", "i", "o">>, <<"h", "t", "t", "p", ":", "/", "/", "x", ".", "i", "o">>}

\* The leads scrape_lead_website is called with
ScrapeLeads == [pk : 1..MaxLeads, website : Websites]

\* A paragraph text longer than the 30 characters _extract_paragraphs asks for
LongText(c) == [i \in 1..31 |-> c]

Link(href, text) == [Element("a", text, <<>>) EXCEPT !.href = href]

\* The elements pages are made of: head elements, headings, paragraphs in and
\* outside a main region, footers with and without text, navigation by tag and by
\* class, a script, and links to mail addresses and social networks in the places
\* the paragraph scan removes and outside them
PageElements ==
    {Element("title", <<" ", "A", "c", "m", "e", " ">>, <<>>),
     [Element("meta", <<>>, <<>>) EXCEPT !.name = "description", !.content = <<"s", "h", "o", "p">>],
     [Element("meta", <<>>, <<>>) EXCEPT !.property = "og:keywords", !.content = <<"k", "w">>],
     Element("h1", <<"H", "i">>, <<Element("span", <<"x">>, <<>>)>>),
     Element("h2", <<"x">>, <<>>),
     Element("p", LongText("p"), <<>>),
     Element("p", <<"C", "o", "n", "t", "a", "c", "t", "@", "E", "x", "a", "m", "p", "l", "e", ".", "c", "o", "m", " ", "s", "a", "l", "e", "s", "@", "r", "e", "a", "l", "b", "i", "z", ".", "c", "o", "m", " ", "0", "5", "3", "2", " ", "1", "2", "3", " ", "4", "5", " ", "6", "7">>, <<>>),
     Element("footer", <<" ", "A", "c", "m", "e", " ", "L", "t", "d", " ">>,
             <<Link(<<"m", "a", "i", "l", "t", "o", ":", "c", "o", "n", "t", "a", "c", "t", "@", "e", "x", "a", "m", "p", "l", "e", ".", "c", "o", "m">>, <<"m", "a", "i", "l">>),
               Element("p", LongText("f"), <<>>)>>),
     Element("footer", <<SP>>, <<>>),
     Element("nav", <<>>, <<Link(<<"/", "a", "b", "o", "u", "t">>, <<"A", "b", "o", "u", "t">>)>>),
     [Element("ul", <<>>, <<Link(<<"/", "h", "o", "m", "e">>, <<"H", "o", "m", "e">>)>>) EXCEPT !.class = <<"t", "o", "p", "-", "M", "e", "n", "u">>],
     Element("main", <<>>, <<Element("p", LongText("m"), <<>>)>>),
     [Element("div", <<>>, <<Link(<<"h", "t", "t", "p", "s", ":", "/", "/", "w", "w", "w", ".", "f", "a", "c", "e", "b", "o", "o", "k", ".", "c", "o", "m", "/", "a", "c", "m", "e">>, <<"f", "b">>),
                              Element("p", LongText("d"), <<>>)>>)
         EXCEPT !.class = <<"M", "a", "i", "n", "-", "C", "o", "n", "t", "e", "n", "t">>],
     Element("header", <<>>, <<Link(<<"h", "t", "t", "p", "s", ":", "/", "/", "i", "n", "s", "t", "a", "g", "r", "a", "m", ".", "c", "o", "m", "/", "a", "c", "m", "e">>, <<"i", "g">>)>>),
     Element("script", <<"m", "=", "'", "i", "n", "f", "o", "@", "r", "e", "a", "l", "b", "i", "z", ".", "c", "o", "m", "'">>, <<>>),
     Link(<<"m", "a", "i", "l", "t", "o", ":", "I", "n", "f", "o", "@", "T", "e", "s", "t", ".", "c", "o", "m", "?", "s", "u", "b", "j", "e", "c", "t", "=", "h", "i">>, <<"w", "r", "i", "t", "e", " ", " ", "u", "s">>)}

\* A response with status 200 and an HTML content type whose body parses to soup
Page(soup) == Answer("response", <<>>, 200, <<"t", "e", "x", "t", "/", "h", "t", "m", "l", ";", " ", "c", "h", "a", "r", "s", "e", "t", "=", "u", "t", "f", "-", "8">>, "html", soup)

\* The website does not answer in time
Unreachable == Answer("timeout", <<>>, NoStatusCode, None, "", <<>>)

\* The answers the orchestration is checked against: the ways a fetch fails, a
\* page without text, a page whose whole text is in its footer, and a page with
\* content
ScrapeAnswers ==
    {Unreachable,
     Answer("error", <<"r", "e", "f", "u", "s", "e", "d">>, NoStatusCode, None, "", <<>>),
     Answer("response", <<>>, 404, <<"t", "e", "x", "t", "/", "h", "t", "m", "l">>, "html", <<>>),
     Answer("response", <<>>, 200, <<"a", "p", "p", "l", "i", "c", "a", "t", "i", "o", "n", "/", "p", "d", "f">>, "html", <<>>),
     Answer("response", <<>>, 200, None, "html", <<>>),
     Answer("response", <<>>, 200, <<"T", "e", "x", "t", "/", "H", "T", "M", "L">>, "timeout", <<>>),
     Answer("response", <<>>, 200, <<"t", "e", "x", "t", "/", "h", "t", "m", "l">>, "error", <<"r", "e", "s", "e", "t">>),
     Answer("response", <<>>, 200, <<"t", "e", "x", "t", "/", "h", "t", "m", "l">>, "unparsable", <<"r", "e", "j", "e", "c", "t", "e", "d">>),
     Page(<<>>),
     Page(<<Element("footer", <<"A", "c", "m", "e", " ", "L", "t", "d">>, <<>>)>>),
     Page(<<Element("h1", <<"H", "i">>, <<>>),
            Element("p", <<"C", "o", "n", "t", "a", "c", "t", "@", "E", "x", "a", "m", "p", "l", "e", ".", "c", "o", "m", " ", "s", "a", "l", "e", "s", "@", "r", "e", "a", "l", "b", "i", "z", ".", "c", "o", "m", " ", "0", "5", "3", "2", " ", "1", "2", "3", " ", "4", "5", " ", "6", "7">>, <<>>)>>)}

\* The pages the extraction is checked against
PageAnswers == {Page(soup) : soup \in SeqsUpTo(PageElements, MaxNodes)}

---------------------------------------------------------------------------
(* State machine *)

\* The record of a handler call: the handler, the job it was called on (or
\* created), the exception it raised ("" for a normal return), the number it
\* returned, and what the remote service answered it
NoCall ==
    [op |-> "", job |-> 0, err |-> "", result |-> 0, rows_failed |-> 0,
     status |-> "", http_ok |-> FALSE, id |-> 0, downloaded |-> FALSE, csv |-> <<>>,
     lead |-> 0, website |-> None, force |-> FALSE, fetched |-> FALSE, outcomes |-> <<>>,
     answer |-> NotFound, ready |-> FALSE, response |-> NoResponse, listing |-> <<>>,
     min_age |-> 0, dry_run |-> FALSE, selected |-> {}, contacted |-> {}]

\* The tables are empty and no handler was called
InitTables ==
    /\ jobs = <<>>
    /\ leads = <<>>
    /\ now = 1
    /\ last = NoCall
    /\ websites = <<>>

\* The remote service has queued every job it may be given, and no import is
\* under way
InitRemote ==
    /\ remote = [id \in 1..MaxJobs |-> RemoteJob("queued", FALSE)]
    /\ runs = <<>>

\* The key pool is empty and no user has a profile
InitNoPool ==
    /\ keys = <<>>
    /\ profiles = [u \in Users |-> NoProfile]
    /\ calls = [u \in Users |-> NoAssignCall]

Init ==
    /\ InitTables
    /\ InitNoPool
    /\ InitRemote
    /\ web = Unreachable

Tick == now < MaxTime /\ now' = now + 1

CreateScrapeJob ==
    /\ Tick
    /\ \E answer \in CreateAnswers :
       \E r \in {create_scrape_job(jobs, answer)} :
        /\ jobs' = r.jobs
        /\ last' = [NoCall EXCEPT !.op = "create_scrape_job", !.job = r.job, !.err = r.err,
                                  !.http_ok = answer.http_ok, !.id = answer.id]
    /\ UNCHANGED <<leads, websites, web, poolVars, remote, runs>>

RefreshJobStatus ==
    /\ Tick
    /\ \E j \in DOMAIN jobs, job_data \in StatusAnswers :
       \E error_data \in IF is_job_ready(job_data)[2] = "failed" THEN ErrorAnswers ELSE {NotFound} :
        /\ jobs' = [jobs EXCEPT ![j] = refresh_job_status(jobs[j], job_data, error_data)]
        /\ last' = [NoCall EXCEPT !.op = "refresh_job_status", !.job = j,
                                  !.status = is_job_ready(job_data)[2]]
    /\ UNCHANGED <<leads, websites, web, poolVars, remote, runs>>

ImportJobResults(answers, csvs) ==
    /\ Tick
    /\ \E j \in DOMAIN jobs, env \in ImportEnvs(answers, csvs) :
       \E r \in {import_job_results([jobs |-> jobs, leads |-> leads], j, env)} :
        /\ jobs' = r.jobs
        /\ leads' = r.leads
        /\ last' = [NoCall EXCEPT !.op = "import_job_results", !.job = j, !.err = r.err,
                                  !.result = r.result, !.rows_failed = r.rows_failed,
                                  !.outcomes = r.outcomes,
                                  !.status = is_job_ready(env.payload)[2],
                                  !.downloaded = env.downloaded, !.csv = env.csv]
    /\ UNCHANGED <<websites, web, poolVars, remote, runs>>

\* get_all_jobs returns [] on a network error, and the command stops there, as it
\* does on an empty list.  The imports' answers are drawn when the flags allow an
\* import.
SyncScraperJobs ==
    /\ Tick
    /\ \E api_jobs \in Listings, opt \in [dry_run : BOOLEAN, import_leads : BOOLEAN, force_reimport : BOOLEAN] :
       \E envs \in IF opt.import_leads /\ ~opt.dry_run
                   THEN [DOMAIN api_jobs -> SyncEnvs]
                   ELSE {[k \in DOMAIN api_jobs |-> ImportEnv(NotFound, FALSE, <<>>)]} :
       \E T \in {sync_scraper_jobs([jobs |-> jobs, leads |-> leads, imported_leads |-> 0],
                                   api_jobs, envs, 1, ExternalIds, opt)} :
        /\ jobs' = T.jobs
        /\ leads' = T.leads
        /\ last' = [NoCall EXCEPT !.op = "sync_scraper_jobs", !.result = T.imported_leads]
    /\ UNCHANGED <<websites, web, poolVars, remote, runs>>

SyncFromApiView ==
    /\ Tick
    /\ \E api_jobs \in Listings :
        /\ jobs' = sync_from_api_view(jobs, api_jobs, 1, ExternalIds)
        /\ last' = [NoCall EXCEPT !.op = "sync_from_api_view"]
    /\ UNCHANGED <<leads, websites, web, poolVars, remote, runs>>

Next ==
    \/ CreateScrapeJob
    \/ RefreshJobStatus
    \/ ImportJobResults(StatusAnswers, SeqsUpTo({BaseRow}, MaxRows))
    \/ SyncScraperJobs
    \/ SyncFromApiView

Spec == Init /\ [][Next]_vars

\* The status answers of the two specifications of the import alone: ready, and
\* one for each way of not being ready
ImportAnswers ==
    {Payload("ok", Absent, Absent), Payload("failed", Absent, Absent),
     Payload("queued", Absent, Absent), Payload("working", Absent, Absent), NotFound}

\* Imports of CSV files that differ in their dedup keys
NextDedup ==
    \/ CreateScrapeJob
    \/ ImportJobResults(ImportAnswers, SeqsUpTo(KeyRows, MaxRows))

SpecDedup == Init /\ [][NextDedup]_vars

\* Imports of CSV files that differ in what their rows hold
NextRows ==
    \/ CreateScrapeJob
    \/ ImportJobResults(ImportAnswers, SeqsUpTo(ValueRows \cup {BaseRow}, MaxRows))

SpecRows == Init /\ [][NextRows]_vars

\* Imports into jobs that a sync has created side by side
NextScope ==
    \/ SyncFromApiView
    \/ ImportJobResults({Payload("ok", Absent, Absent), NotFound}, SeqsUpTo(ScopeRows, MaxRows))

SpecScope == Init /\ [][NextScope]_vars

\* The clock goes on, up to its bound
TickOn == now' = IF now < MaxTime THEN now + 1 ELSE now

\* --min-age of poll_scrape_jobs, in ticks of the clock
MinAges == 0..MaxMinAge

\* One pass of poll_scrape_jobs
PollJobs ==
    /\ TickOn
    /\ \E min_age \in MinAges, dry_run \in BOOLEAN :
       \E T \in {poll_jobs([jobs |-> jobs, leads |-> leads, contacted |-> {}],
                            min_age, dry_run, remote)} :
        /\ jobs' = T.jobs
        /\ leads' = T.leads
        /\ last' = [NoCall EXCEPT !.op = "_poll_jobs", !.min_age = min_age,
                                  !.dry_run = dry_run,
                                  !.selected = Selected(jobs, now, min_age),
                                  !.contacted = T.contacted]
    /\ UNCHANGED <<websites, web, poolVars, remote, runs>>

\* One pass of poll_scrape_jobs that is no dry run
PollJobsForReal ==
    /\ TickOn
    /\ \E min_age \in MinAges :
       \E T \in {poll_jobs([jobs |-> jobs, leads |-> leads, contacted |-> {}],
                            min_age, FALSE, remote)} :
        /\ jobs' = T.jobs
        /\ leads' = T.leads
        /\ last' = [NoCall EXCEPT !.op = "_poll_jobs", !.min_age = min_age,
                                  !.selected = Selected(jobs, now, min_age),
                                  !.contacted = T.contacted]
    /\ UNCHANGED <<websites, web, poolVars, remote, runs>>

\* What one call of check_and_import_ready_jobs leaves behind
CheckPass ==
    LET T == check_and_import_ready_jobs([jobs |-> jobs, leads |-> leads,
                                          contacted |-> {}], remote)
    IN  [jobs |-> T.jobs, leads |-> T.leads,
         last |-> [NoCall EXCEPT !.op = "check_and_import_ready_jobs",
                                 !.min_age = CheckMinAge,
                                 !.selected = Selected(jobs, now, CheckMinAge),
                                 !.contacted = T.contacted]]

\* One call of check_and_import_ready_jobs
CheckAndImportReadyJobs ==
    /\ TickOn
    /\ \E P \in {CheckPass} :
        /\ jobs' = P.jobs
        /\ leads' = P.leads
        /\ last' = P.last
    /\ UNCHANGED <<websites, web, poolVars, remote, runs>>

\* ENABLED <<CheckAndImportReadyJobs>>_vars, spelled out: the call moves the
\* clock or leaves something else than it found
CheckChanges ==
    \/ now < MaxTime
    \/ \E P \in {CheckPass} : <<P.jobs, P.leads, P.last>> # <<jobs, leads, last>>

\* The remote service works on a job it was given: queued, working, then ok or
\* failed; the CSV file of a job that is ok downloads from some moment on
RemoteProgress ==
    /\ \E id \in ExternalIds :
          \/ /\ remote[id].word = "queued"
             /\ remote' = [remote EXCEPT ![id].word = "working"]
          \/ /\ remote[id].word = "working"
             /\ \E word \in {"ok", "failed"} : remote' = [remote EXCEPT ![id].word = word]
          \/ /\ remote[id].word = "ok" /\ ~remote[id].downloads
             /\ remote' = [remote EXCEPT ![id].downloads = TRUE]
    /\ UNCHANGED <<jobs, leads, now, last, websites, web, poolVars, runs>>

\* Jobs are submitted, the remote service works on them, and the pollers pass
NextPoll ==
    \/ CreateScrapeJob
    \/ RemoteProgress
    \/ PollJobs
    \/ CheckAndImportReadyJobs

SpecPoll == Init /\ [][NextPoll]_vars

\* The same without dry runs, where the remote service does not stop working on
\* a job and the cron job keeps calling check_and_import_ready_jobs
NextPollForReal ==
    \/ CreateScrapeJob
    \/ RemoteProgress
    \/ PollJobsForReal
    \/ CheckAndImportReadyJobs

\* WF_vars(CheckAndImportReadyJobs) is written out with CheckChanges for its
\* ENABLED
SpecPollFair ==
    /\ Init
    /\ [][NextPollForReal]_vars
    /\ WF_vars(RemoteProgress)
    /\ ([]<>(~CheckChanges) \/ []<><<CheckAndImportReadyJobs>>_vars)

\* The CSV files that two runs read at once: rows with keys and a row without
RaceRows ==
    {[BaseRow EXCEPT !.cid = <<"a">>, !.link = <<"u">>],
     [BaseRow EXCEPT !.cid = <<"b">>, !.data_id = <<"d">>],
     [BaseRow EXCEPT !.cid = <<>>, !.link = <<SP>>]}

\* A run of import_job_results of job j that reached the loop over the rows of the
\* file: the row it is at, whether _find_existing_lead has answered for that row,
\* and its counters
NewRun(j, csv) ==
    [job |-> j, csv |-> csv, k |-> 1, pc |-> "find", leads_created |-> 0,
     duplicates_skipped |-> 0]

\* import_job_results up to the loop: the job was ready and its file downloaded
\* (otherwise the run raises before it reads or writes a lead); every run of a job
\* downloads the same file
StartImport ==
    /\ Len(runs) < MaxRuns
    /\ \E j \in DOMAIN jobs, csv \in SeqsUpTo(RaceRows, MaxRaceRows) :
        /\ \A r \in DOMAIN runs : runs[r].job = j => runs[r].csv = csv
        /\ runs' = Append(runs, NewRun(j, csv))
    /\ UNCHANGED <<jobs, leads, now, last, websites, web, poolVars, remote>>

\* existing = _find_existing_lead(row, job), and the continue of a duplicate
FindExistingLead ==
    /\ \E r \in DOMAIN runs :
        /\ runs[r].pc = "find" /\ runs[r].k <= Len(runs[r].csv)
        /\ runs' = IF find_existing_lead(leads, runs[r].csv[runs[r].k], runs[r].job)
                   THEN [runs EXCEPT ![r].duplicates_skipped = @ + 1, ![r].k = @ + 1]
                   ELSE [runs EXCEPT ![r].pc = "create"]
    /\ UNCHANGED <<jobs, leads, now, last, websites, web, poolVars, remote>>

\* lead = _create_lead_from_csv_row(row, job)
CreateLead ==
    /\ \E r \in DOMAIN runs :
        /\ runs[r].pc = "create"
        /\ \E made \in {create_lead_from_csv_row(runs[r].csv[runs[r].k], runs[r].job)} :
            /\ leads' = IF made[1] THEN Append(leads, made[2]) ELSE leads
            /\ runs' = [runs EXCEPT ![r].pc = "find", ![r].k = @ + 1,
                                    ![r].leads_created = IF made[1] THEN @ + 1 ELSE @]
    /\ UNCHANGED <<jobs, now, last, websites, web, poolVars, remote>>

\* The job stats after the loop, and job.save()
FinishImport ==
    /\ \E r \in DOMAIN runs :
        /\ runs[r].pc = "find" /\ runs[r].k > Len(runs[r].csv)
        /\ jobs' = [jobs EXCEPT ![runs[r].job] =
               [@ EXCEPT !.leads_count = LeadsCount(leads, runs[r].job),
                         !.status = "completed",
                         !.completed_at = IF @ # NoTime THEN @ ELSE now,
                         !.csv_file_path = jobs[runs[r].job].external_id,
                         !.error_message =
                             IF runs[r].duplicates_skipped # 0
                             THEN DuplicatesMessage(runs[r].duplicates_skipped)
                             ELSE NoMessage]]
        /\ runs' = [runs EXCEPT ![r].pc = "done"]
        /\ last' = [NoCall EXCEPT !.op = "import_job_results", !.job = runs[r].job,
                                  !.result = runs[r].leads_created, !.downloaded = TRUE,
                                  !.csv = runs[r].csv]
    /\ UNCHANGED <<leads, now, websites, web, poolVars, remote>>

\* Jobs are submitted, and imports run side by side, a row step at a time
NextRace ==
    \/ CreateScrapeJob
    \/ StartImport
    \/ FindExistingLead
    \/ CreateLead
    \/ FinishImport

SpecRace == Init /\ [][NextRace]_vars

\* is_job_ready(job_id), against an answer of get_job
IsJobReady ==
    /\ \E job_data \in ReadyAnswers :
       \E r \in {is_job_ready(job_data)} :
        last' = [NoCall EXCEPT !.op = "is_job_ready", !.answer = job_data,
                               !.ready = r[1], !.status = r[2]]
    /\ UNCHANGED <<jobs, leads, now, websites, web, poolVars, remote, runs>>

\* Calls of is_job_ready alone
NextReady == IsJobReady

SpecReady == Init /\ [][NextReady]_vars

\* service.get_all_jobs(), against a response of the remote service
GetAllJobs ==
    /\ \E response \in ListResponses :
       \E r \in {get_all_jobs(response)} :
        last' = [NoCall EXCEPT !.op = "get_all_jobs", !.response = response,
                               !.err = r.err, !.listing = r.value]
    /\ UNCHANGED <<jobs, leads, now, websites, web, poolVars, remote, runs>>

\* service.list_jobs(), against a response of the remote service
ListJobs ==
    /\ \E response \in ListResponses :
       \E r \in {list_jobs(response)} :
        last' = [NoCall EXCEPT !.op = "list_jobs", !.response = response,
                               !.err = r.err, !.listing = r.value]
    /\ UNCHANGED <<jobs, leads, now, websites, web, poolVars, remote, runs>>

\* The two ways of listing the jobs of the remote service
NextList == GetAllJobs \/ ListJobs

SpecList == Init /\ [][NextList]_vars

\* assign_to_user(user), the select_for_update().filter(...).first() inside
\* transaction.atomic(): it waits while another transaction holds the lock of the
\* row it would take; without a row the call returns None
SelectForUpdate(user) ==
    /\ calls[user].pc \in {"idle", "returned"}
    /\ calls[user].n < MaxCalls
    /\ IF Available(keys) = {}
       THEN calls' = [calls EXCEPT ![user] = [pc |-> "returned", key |-> NoKey, returned |-> NoKey,
                                              err |-> "", n |-> @.n + 1]]
       ELSE /\ ~RowLocked(calls, user, First(Available(keys)))
            /\ calls' = [calls EXCEPT ![user] = [pc |-> "locked", key |-> First(Available(keys)),
                                                 returned |-> NoKey, err |-> "", n |-> @.n + 1]]
    /\ UNCHANGED <<jobs, leads, now, last, websites, web, keys, profiles, remote, runs>>

\* assign_to_user(user), key.save(update_fields=['assigned_to', 'assigned_at']):
\* the row is written inside the transaction; a user who has a key already breaks
\* the unique constraint, the IntegrityError rolls the transaction back and
\* leaves the call
SaveKey(user) ==
    /\ calls[user].pc = "locked"
    /\ IF AlreadyAssigned(keys, user, calls[user].key)
       THEN calls' = [calls EXCEPT ![user].pc = "returned", ![user].err = "IntegrityError"]
       ELSE calls' = [calls EXCEPT ![user].pc = "saved"]
    /\ UNCHANGED <<jobs, leads, now, last, websites, web, keys, profiles, remote, runs>>

\* assign_to_user(user), the rest: the profile of the user, if there is one,
\* takes the key, the transaction commits and the key is returned
CommitKey(user) ==
    /\ calls[user].pc = "saved"
    /\ keys' = [keys EXCEPT ![calls[user].key].assigned_to = user,
                            ![calls[user].key].assigned_at = now]
    /\ profiles' = IF profiles[user] # NoProfile
                   THEN [profiles EXCEPT ![user] = calls[user].key]
                   ELSE profiles
    /\ calls' = [calls EXCEPT ![user].pc = "returned", ![user].returned = calls[user].key]
    /\ UNCHANGED <<jobs, leads, now, last, websites, web, remote, runs>>

\* The pools the calls start from: every key active or not, assigned or not, no
\* user with two keys
Pools ==
    {pool \in SeqsUpTo({PoolKey(u, NoTime, a) : u \in {NoUser} \cup Users, a \in BOOLEAN}, MaxKeys) :
        \A a, b \in DOMAIN pool :
            a # b /\ pool[a].assigned_to # NoUser => pool[a].assigned_to # pool[b].assigned_to}

\* The last user has no profile
InitPool ==
    /\ InitTables
    /\ InitRemote
    /\ web = Unreachable
    /\ keys \in Pools
    /\ profiles = [u \in Users |-> IF u = MaxUsers THEN NoProfile ELSE EmptyKey]
    /\ calls = [u \in Users |-> NoAssignCall]

\* Calls of assign_to_user that run side by side
NextPool ==
    \E user \in Users :
        \/ SelectForUpdate(user)
        \/ SaveKey(user)
        \/ CommitKey(user)

SpecPool == InitPool /\ [][NextPool]_vars

\* scrape_lead_website(lead, force), against what the website answers at present
ScrapeLeadWebsite(scrape_leads) ==
    /\ Tick
    /\ \E lead \in scrape_leads, force \in BOOLEAN :
       \E r \in {scrape_lead_website(websites, lead, force, web)} :
        /\ websites' = r.websites
        /\ last' = [NoCall EXCEPT !.op = "scrape_lead_website", !.lead = lead.pk,
                                  !.website = lead.website, !.force = force,
                                  !.fetched = r.fetched, !.result = r.returned]
    /\ UNCHANGED <<jobs, leads, web, poolVars, remote, runs>>

\* The website starts to answer otherwise
SiteChanges ==
    /\ \E answer \in ScrapeAnswers : web' = answer
    /\ UNCHANGED <<jobs, leads, now, last, websites, poolVars, remote, runs>>

\* Scrapes of websites that fail, change and come back
InitScrape ==
    /\ InitTables
    /\ InitNoPool
    /\ InitRemote
    /\ web \in ScrapeAnswers

NextScrape ==
    \/ ScrapeLeadWebsite(ScrapeLeads)
    \/ SiteChanges

SpecScrape == InitScrape /\ [][NextScrape]_vars

\* Scrapes of one page each, over pages of every make-up
InitExtract ==
    /\ InitTables
    /\ InitNoPool
    /\ InitRemote
    /\ web \in PageAnswers

NextExtract == ScrapeLeadWebsite({l \in ScrapeLeads : l.pk = 1 /\ Truthy(l.website)})

SpecExtract == InitExtract /\ [][NextExtract]_vars

---------------------------------------------------------------------------
(* Claims *)

IsCall(op) == last'.op = op /\ now' # now

LeadsOf(table, j) == {i \in DOMAIN table : table[i].job = j}

\* C1: across refresh_job_status and import_job_results calls, whatever the remote
\* service reports, a job stored as completed or failed keeps that status.
C1_TerminalStatusIsFinal ==
    [][(IsCall("refresh_job_status") \/ IsCall("import_job_results")) =>
         \A j \in DOMAIN jobs :
             jobs[j].status \in {"completed", "failed"} => jobs'[j].status = jobs[j].status]_vars

\* C2: after any sequence of submit, refresh, import and sync operations, every
\* stored ScrapeJob status is one of pending, running, completed, failed.
C2_StatusInChoices == \A j \in DOMAIN jobs : jobs[j].status \in STATUS_CHOICES

\* C3: after any sequence of imports, no two leads of one job share a non-empty
\* cid, a non-empty data_id or a non-empty link.
C3_NoDuplicateKeys ==
    \A a, b \in DOMAIN leads :
        a # b /\ leads[a].job = leads[b].job =>
            /\ Truthy(leads[a].cid) => leads[a].cid # leads[b].cid
            /\ Truthy(leads[a].data_id) => leads[a].data_id # leads[b].data_id
            /\ Truthy(leads[a].link) => leads[a].link # leads[b].link

\* C3 witness: a second import into a job skipped duplicate rows and left the job
\* with several keyed leads.
C3_Witness ==
    /\ last.op = "import_job_results" /\ last.err = ""
    /\ jobs[last.job].error_message.kind = "duplicates"
    /\ last.result > 0
    /\ Cardinality({i \in LeadsOf(leads, last.job) : Truthy(leads[i].cid)}) >= 3
    /\ \E i \in LeadsOf(leads, last.job) : Truthy(leads[i].data_id)
    /\ \E i \in LeadsOf(leads, last.job) : Len(leads[i].cid) = CidMaxLen

\* C4: importing the same CSV into the same job a second time creates no lead and
\* returns 0, for every CSV.
C4_ImportIdempotent ==
    [][(/\ last.op = "import_job_results" /\ last.err = ""
        /\ IsCall("import_job_results") /\ last'.err = ""
        /\ last'.job = last.job /\ last'.csv = last.csv) =>
           /\ last'.result = 0
           /\ Cardinality(LeadsOf(leads', last.job)) = Cardinality(LeadsOf(leads, last.job))]_vars

\* C5: when rows failed during an import, the job's error_message is the
\* 'Imported with N errors' summary with N the number of failed rows, and it is
\* the duplicate note only when no row failed.
C5_FailedRowsAreSummarized ==
    last.op = "import_job_results" /\ last.err = "" /\ last.rows_failed > 0 =>
        /\ jobs[last.job].error_message.kind = "errors"
        /\ jobs[last.job].error_message.n = last.rows_failed

Untitled(row) == ~Truthy(row.title)

KeysDiffer(r1, r2) ==
    /\ Truthy(normalize_str(r1.cid, CidMaxLen)) => normalize_str(r1.cid, CidMaxLen) # normalize_str(r2.cid, CidMaxLen)
    /\ Truthy(normalize_str(r1.data_id, DataIdMaxLen)) => normalize_str(r1.data_id, DataIdMaxLen) # normalize_str(r2.data_id, DataIdMaxLen)
    /\ Truthy(normalize_str(r1.link, LinkMaxLen)) => normalize_str(r1.link, LinkMaxLen) # normalize_str(r2.link, LinkMaxLen)

\* C6: a CSV of 3 rows, one without title and two sound rows that are no duplicates,
\* imported into a job without leads, creates 2 leads, sets leads_count to 2 and
\* leaves an error_message that reports 1 row error.
C6_UntitledRowIsRowError ==
    [][(/\ IsCall("import_job_results") /\ last'.err = ""
        /\ LeadsOf(leads, last'.job) = {}
        /\ Len(last'.csv) = 3
        /\ \E u \in 1..3 :
              /\ Untitled(last'.csv[u])
              /\ \A k \in (1..3) \ {u} : ~Untitled(last'.csv[k]) /\ ~RowRaises(last'.csv[k])
              /\ \A k, m \in (1..3) \ {u} : k # m => KeysDiffer(last'.csv[k], last'.csv[m])) =>
           /\ last'.result = 2
           /\ jobs'[last'.job].leads_count = 2
           /\ jobs'[last'.job].error_message.kind = "errors"
           /\ jobs'[last'.job].error_message.n = 1]_vars

NumericFails(row) ==
    \/ Truthy(row.review_count) /\ ~IntParses(row.review_count)
    \/ Truthy(row.review_rating) /\ ~FloatParses(row.review_rating)
    \/ Truthy(row.latitude) /\ ~FloatParses(row.latitude)
    \/ Truthy(row.longitude) /\ ~FloatParses(row.longitude)

\* The leads an import that read only the rows whose numbers parse would store
LeadsWithoutFailingRows(table, csv, j) ==
    ImportRows([table |-> table, leads_created |-> 0, duplicates_skipped |-> 0,
                errors |-> <<>>, rows_failed |-> 0, outcomes |-> <<>>],
               SelectSeq(csv, LAMBDA row : ~NumericFails(row)), 1, j).table

\* C7: a row whose review_count, review_rating, latitude or longitude does not
\* parse creates no lead; the other rows are imported in file order as if the row
\* were not there, and an import that got its file returns with the job completed.
C7_NumericFailureSkipsRowOnly ==
    [][IsCall("import_job_results") /\ last'.status = "completed" /\ last'.downloaded =>
           /\ last'.err = ""
           /\ jobs'[last'.job].status = "completed"
           /\ leads' = LeadsWithoutFailingRows(leads, last'.csv, last'.job)]_vars

\* C7 witness: an import returned after a file whose first row has an unparsable
\* number and whose later rows created leads.
C7_Witness ==
    /\ last.op = "import_job_results" /\ last.err = ""
    /\ Len(last.csv) = 3 /\ NumericFails(last.csv[1]) /\ ~NumericFails(last.csv[3])
    /\ last.result = 2 /\ last.rows_failed = 1

\* C8: when import_job_results returns normally, leads_count is the number of the
\* job's leads, the status is completed, completed_at is set, csv_file_path is the
\* downloaded file's path, and the number returned is the number of leads created.
C8_ImportPostcondition ==
    [][IsCall("import_job_results") /\ last'.err = "" =>
           LET job == jobs'[last'.job] IN
           /\ job.leads_count = Cardinality({i \in DOMAIN leads' : leads'[i].job = last'.job})
           /\ job.status = "completed"
           /\ job.completed_at # NoTime
           /\ job.csv_file_path = job.external_id
           /\ last'.result = Len(leads') - Len(leads)
           /\ SubSeq(leads', 1, Len(leads)) = leads]_vars

\* C8 witness: an import into the second of two jobs returned, with leads of both
\* jobs stored.
C8_Witness ==
    /\ last.op = "import_job_results" /\ last.err = "" /\ last.result > 0
    /\ \E i, k \in DOMAIN leads : leads[i].job # leads[k].job

ExpectedError(status, downloaded) ==
    CASE status = "failed" -> "Job failed, cannot import results"
      [] status = "not_found" -> "Job not found in API"
      [] status = "pending" -> "Job not ready yet (status: pending). Please wait and try again."
      [] status = "running" -> "Job not ready yet (status: running). Please wait and try again."
      [] status = "completed" /\ ~downloaded -> "Failed to download CSV file. Job may not be ready yet."
      [] OTHER -> ""

\* C9: an import of a job that is not ready (failed, not_found, pending, running),
\* or whose download gave no file, raises the error that names that cause, creates
\* no lead and changes no field of any ScrapeJob.
C9_FailedImportChangesNothing ==
    [][IsCall("import_job_results") =>
           /\ last'.err = ExpectedError(last'.status, last'.downloaded)
           /\ last'.err # "" => jobs' = jobs /\ leads' = leads]_vars

\* C9 witness: an import of a job stored as running raised the download error.
C9_Witness ==
    /\ last.op = "import_job_results"
    /\ last.err = "Failed to download CSV file. Job may not be ready yet."
    /\ jobs[last.job].status = "running"

\* C10: create_scrape_job adds exactly one ScrapeJob, pending and with the id the
\* remote service returned, when the remote call succeeds; when the call fails or
\* returns no id it raises and the table is as before.
C10_CreateAllOrNothing ==
    [][IsCall("create_scrape_job") =>
           IF last'.http_ok /\ last'.id # 0
           THEN /\ last'.err = ""
                /\ Len(jobs') = Len(jobs) + 1
                /\ SubSeq(jobs', 1, Len(jobs)) = jobs
                /\ jobs'[Len(jobs')].status = "pending"
                /\ jobs'[Len(jobs')].external_id = last'.id
           ELSE /\ last'.err # ""
                /\ jobs' = jobs]_vars

\* C10 witness: a second job was created after a call that failed.
C10_Witness ==
    /\ last.op = "create_scrape_job" /\ last.err = ""
    /\ Len(jobs) = 2 /\ jobs[2].status = "pending" /\ jobs[2].external_id = last.id

\* C11: refresh_job_status leaves every stored job as it is when the remote status
\* is not_found; when it is pending, a pending job stays pending and no running,
\* completed or failed job becomes pending.
C11_RefreshNotFoundAndPendingFrame ==
    [][IsCall("refresh_job_status") =>
           /\ last'.status = "not_found" => jobs' = jobs
           /\ last'.status = "pending" =>
                 \A j \in DOMAIN jobs :
                     /\ jobs[j].status = "pending" => jobs'[j].status = "pending"
                     /\ jobs[j].status # "pending" => jobs'[j].status # "pending"]_vars

\* C11 witness: a job stored as completed was refreshed while the remote service
\* answered pending.
C11_Witness ==
    /\ last.op = "refresh_job_status" /\ last.status = "pending"
    /\ jobs[last.job].status = "completed"

\* C12: over refresh_job_status and import_job_results calls, a job recorded as
\* completed has completed_at set, to the time of the call if it was unset, and a
\* completed_at that is set is never changed.
C12_CompletedAtSetOnce ==
    [][IsCall("refresh_job_status") \/ IsCall("import_job_results") =>
           /\ \A j \in DOMAIN jobs :
                 /\ jobs[j].completed_at # NoTime => jobs'[j].completed_at = jobs[j].completed_at
                 /\ jobs[j].completed_at = NoTime /\ jobs'[j].completed_at # NoTime =>
                        j = last'.job /\ jobs'[j].status = "completed" /\ jobs'[j].completed_at = now
           /\ last'.err = "" /\ jobs'[last'.job].status = "completed" =>
                 jobs'[last'.job].completed_at # NoTime]_vars

\* C12 witness: an import returned on a job that an earlier call had recorded as
\* completed, and completed_at is still the time of that earlier call.
C12_Witness ==
    /\ last.op = "import_job_results" /\ last.err = ""
    /\ jobs[last.job].completed_at # NoTime
    /\ jobs[last.job].completed_at < now - 1

HasWebsite(table, pk) == \E i \in DOMAIN table : table[i].lead = pk

IsHtml(answer) ==
    /\ answer.kind = "response" /\ answer.status_code = 200
    /\ answer.content_type # None
    /\ Contains(lower(answer.content_type), <<"t", "e", "x", "t", "/", "h", "t", "m", "l">>)

\* C14: the record a scrape stores has status completed, no_content or failed;
\* completed only with a full_text that is not empty; no_content only after a 200
\* response with an HTML content type whose body was read, and with no full_text;
\* and failed whenever the fetch did not give such a body.
C14_StoredStatus ==
    [][IsCall("scrape_lead_website") /\ last'.fetched =>
           LET record == websites'[last'.result] IN
           /\ record.status \in {"completed", "no_content", "failed"}
           /\ record.status = "completed" => Truthy(record.full_text)
           /\ record.status = "no_content" =>
                 IsHtml(web) /\ web.body = "html" /\ record.full_text = None
           /\ ~(IsHtml(web) /\ web.body = "html") => record.status = "failed"]_vars

\* C14 witness: one lead's extraction is stored as no_content and another's as
\* completed.
C14_Witness ==
    /\ last.op = "scrape_lead_website" /\ last.fetched
    /\ \E i, k \in DOMAIN websites :
          websites[i].status = "no_content" /\ websites[k].status = "completed"

\* C15: after a timeout, a transport error, a response that is not 200 or a content
\* type that is not HTML, scrape_lead_website returns a stored record with status
\* failed and an error_message that is not empty, and nothing parsed: no emails, no
\* headings, no paragraphs, no full_text.
C15_FetchFailureIsRecorded ==
    [][IsCall("scrape_lead_website") /\ last'.fetched /\ ~IsHtml(web) =>
           /\ last'.result \in DOMAIN websites'
           /\ LET record == websites'[last'.result] IN
              /\ record.lead = last'.lead
              /\ record.status = "failed"
              /\ record.error_message # None /\ Len(record.error_message) > 0
              /\ record.emails = <<>> /\ record.emails_count = 0
              /\ record.headings = <<>>
              /\ record.paragraphs = <<>>
              /\ record.full_text = None /\ record.full_text_length = 0]_vars

\* C15 witness: a forced scrape of a lead that had an extraction met a 404.
C15_Witness ==
    /\ last.op = "scrape_lead_website" /\ last.force /\ last.fetched
    /\ websites[last.result].created_at < websites[last.result].scraped_at
    /\ websites[last.result].status = "failed"
    /\ websites[last.result].error_message = <<"H", "T", "T", "P", " ", "4", "0", "4">>

\* C16: no two LeadWebsite records belong to one lead, and a scrape of a lead that
\* has a record writes to that record: the table keeps its length, every record
\* keeps its place, its lead and its created_at, and the other records are as
\* before.
C16_OneRecordPerLead ==
    [][IsCall("scrape_lead_website") =>
           /\ \A i, k \in DOMAIN websites' : i # k => websites'[i].lead # websites'[k].lead
           /\ HasWebsite(websites, last'.lead) /\ Truthy(last'.website) =>
                 /\ Len(websites') = Len(websites)
                 /\ websites[last'.result].lead = last'.lead
                 /\ \A i \in DOMAIN websites :
                       /\ websites'[i].lead = websites[i].lead
                       /\ websites'[i].created_at = websites[i].created_at
                       /\ i # last'.result => websites'[i] = websites[i]]_vars

\* C16 witness: with the extractions of two leads stored, a forced scrape rewrote
\* the first one.
C16_Witness ==
    /\ last.op = "scrape_lead_website" /\ last.force /\ last.fetched
    /\ Len(websites) = 2 /\ last.result = 1
    /\ websites[1].created_at < websites[1].scraped_at
    /\ websites[1].status = "completed"

Parsed(status) == status \in {"completed", "no_content"}

\* C17: no extraction method changes the parsed document, so every field a scrape
\* stores is what its method yields on the document as it was parsed, whatever ran
\* before it.
C17_ExtractionLeavesDocument ==
    [][IsCall("scrape_lead_website") /\ last'.fetched /\ Parsed(websites'[last'.result].status) =>
           LET record == websites'[last'.result]
               soup == web.soup
           IN  /\ _extract_paragraphs(soup).soup = soup
               /\ _extract_full_text(soup).soup = soup
               /\ record.emails = _extract_emails(soup, Markup(soup))
               /\ record.page_title = _extract_title(soup)
               /\ record.meta_description = _extract_meta(soup, "description")
               /\ record.meta_keywords = _extract_meta(soup, "keywords")
               /\ record.headings = _extract_headings(soup)
               /\ record.paragraphs = _extract_paragraphs(soup).value
               /\ record.navigation_links = _extract_navigation(soup)
               /\ record.footer_content = _extract_footer(soup)
               /\ record.phone_numbers = _extract_phones(Markup(soup))
               /\ record.social_links = _extract_social_links(soup, last'.website)
               /\ record.full_text = _extract_full_text(soup).value]_vars

\* The footer elements of a page, in document order
Footers(soup) == SelectSeq(Flatten(soup), LAMBDA n : n.tag = "footer")

\* C18: after a scrape that parsed the page, footer_content is the text of the
\* page's first footer element, cut to 2000 characters, and it is None only when
\* the page has no footer element or that footer has no text.
C18_FooterContentStored ==
    [][IsCall("scrape_lead_website") /\ last'.fetched /\ Parsed(websites'[last'.result].status) =>
           LET footer_content == websites'[last'.result].footer_content
               footers == Footers(web.soup)
           IN  IF footers # <<>> /\ get_text(<<footers[1]>>, <<SP>>) # <<>>
               THEN footer_content = Slice(get_text(<<footers[1]>>, <<SP>>), 2000)
               ELSE footer_content = None]_vars

\* C19: the emails a scrape stores hold no address that contains a denylisted
\* domain or file extension, wherever on the page the address stood, and they are
\* lower-cased and in strictly ascending order.
C19_EmailsFiltered ==
    \A r \in DOMAIN websites :
        LET emails == websites[r].emails IN
        /\ \A i \in DOMAIN emails :
              /\ ~\E x \in EmailDenyList : Contains(emails[i], x)
              /\ emails[i] = lower(emails[i])
        /\ \A i, k \in DOMAIN emails : i < k => StrLess(emails[i], emails[k])

\* The leads stored when row k of the file of the last import was looked up: those
\* stored before the import and those the rows before k created
StoredAtRow(k) ==
    SubSeq(leads', 1, Len(leads) + Cardinality({m \in 1..(k - 1) : last'.outcomes[m] = "created"}))

\* A lead of job j carries one of the row's normalized keys that is not empty
KeyMatch(table, row, j) ==
    \E i \in DOMAIN table :
        /\ table[i].job = j
        /\ \/ Truthy(normalize_str(row.cid, CidMaxLen)) /\ table[i].cid = normalize_str(row.cid, CidMaxLen)
           \/ Truthy(normalize_str(row.data_id, DataIdMaxLen)) /\ table[i].data_id = normalize_str(row.data_id, DataIdMaxLen)
           \/ Truthy(normalize_str(row.link, LinkMaxLen)) /\ table[i].link = normalize_str(row.link, LinkMaxLen)

\* C20: a row of an imported file is skipped as a duplicate exactly when a lead
\* stored for the same job at that moment carries one of the row's normalized keys
\* that is not empty; leads of other jobs do not count.
C20_SkippedIffKeyMatch ==
    [][IsCall("import_job_results") /\ last'.err = "" =>
           /\ Len(last'.outcomes) = Len(last'.csv)
           /\ \A k \in DOMAIN last'.csv :
                 last'.outcomes[k] = "duplicate" <=> KeyMatch(StoredAtRow(k), last'.csv[k], last'.job)]_vars

\* C20 witness: an import into one job created a lead from a row whose cid a lead
\* of another job carries, and skipped a later row with that cid and another link.
C20_Witness ==
    /\ last.op = "import_job_results" /\ last.err = ""
    /\ \E k, m \in DOMAIN last.csv :
          /\ k < m
          /\ last.outcomes[k] = "created" /\ last.outcomes[m] = "duplicate"
          /\ Truthy(normalize_str(last.csv[k].cid, CidMaxLen))
          /\ normalize_str(last.csv[k].cid, CidMaxLen) = normalize_str(last.csv[m].cid, CidMaxLen)
          /\ normalize_str(last.csv[k].link, LinkMaxLen) # normalize_str(last.csv[m].link, LinkMaxLen)
          /\ \E i \in DOMAIN leads :
                leads[i].job # last.job /\ leads[i].cid = normalize_str(last.csv[k].cid, CidMaxLen)

\* The status word of a payload: the one under 'Status' unless that is missing or
\* empty, else the one under 'status', else the empty word
WordOf(answer) ==
    IF answer.Status \notin {Absent, ""} THEN answer.Status
    ELSE IF answer.status # Absent THEN answer.status
    ELSE ""

CompletedSpellings == {"done", "Done", "DONE", "ok", "OK", "ready", "Ready", "completed", "Completed"}
PendingSpellings == {"queued", "Queued", "waiting", "pending", "PENDING"}
FailedSpellings == {"failed", "Failed", "error", "ERROR"}

C22_ListJobsDegradesToEmpty ==
    (/\ last.op = "list_jobs"
     /\ \/ last.response.kind # "response"
        \/ last.response.status_code < 200
        \/ last.response.status_code >= 300)
        => last.err = "" /\ last.listing = <<>>

\* The keys a user holds
KeysOf(user) == {k \in DOMAIN keys : keys[k].assigned_to = user}

\* C23: however assign_to_user calls for distinct users interleave, no key is
\* handed to two users and no user holds two keys, and a key that a call returned
\* is assigned to the user of the call.
C23_NoKeySharedNoUserDoubled ==
    /\ \A u, v \in Users :
          u # v /\ calls[u].returned # NoKey => calls[u].returned # calls[v].returned
    /\ \A u \in Users : calls[u].returned # NoKey => keys[calls[u].returned].assigned_to = u
    /\ \A u \in Users : Cardinality(KeysOf(u)) <= 1

\* C23 witness: one call has returned its key, the transaction of a second holds
\* the lock of the next key, not yet committed, and a third call waits for that
\* lock.
C23_Witness ==
    \E u, v, w \in Users :
        /\ calls[u].returned # NoKey
        /\ calls[v].pc = "saved" /\ keys[calls[v].key].assigned_to = NoUser
        /\ calls[w].pc = "idle"
        /\ Available(keys) # {} /\ RowLocked(calls, w, First(Available(keys)))

\* C24: a key that is assigned keeps its assignee at every step of an
\* assign_to_user call; a key that a call assigns was unassigned and active; and a
\* call that finds no unassigned active key returns None and changes no key.
C24_AssignmentIsFinal ==
    [][/\ \A k \in DOMAIN keys :
             /\ keys[k].assigned_to # NoUser => keys'[k].assigned_to = keys[k].assigned_to
             /\ keys'[k].assigned_to # keys[k].assigned_to
                   => keys[k].assigned_to = NoUser /\ keys[k].is_active
       /\ \A u \in Users :
             calls[u].pc \in {"idle", "returned"} /\ calls'[u] # calls[u]
             /\ (\A k \in DOMAIN keys : keys[k].assigned_to # NoUser \/ ~keys[k].is_active)
                => calls'[u].pc = "returned" /\ calls'[u].returned = NoKey /\ keys' = keys]_vars

\* C24 witness: a pool with an inactive unassigned key and an assigned key, in
\* which a call found nothing to hand out and returned None.
C24_Witness ==
    /\ \E k \in DOMAIN keys : keys[k].assigned_to = NoUser /\ ~keys[k].is_active
    /\ \E k \in DOMAIN keys : keys[k].assigned_to # NoUser /\ keys[k].assigned_at # NoTime
    /\ \E u \in Users : calls[u].pc = "returned" /\ calls[u].n > 0 /\ calls[u].returned = NoKey
                        /\ calls[u].err = ""

\* C28: after any sequence of submit, refresh, import and sync operations, a job
\* whose status is completed has completed_at set.
C28_CompletedHasCompletedAt ==
    \A j \in DOMAIN jobs : jobs[j].status = "completed" => jobs[j].completed_at # NoTime

\* C28 witness: a job that a refresh found completed, stamped at that refresh.
C28_Witness ==
    /\ last.op = "refresh_job_status" /\ last.status = "completed"
    /\ jobs[last.job].status = "completed"
    /\ jobs[last.job].completed_at = now - 1
    /\ jobs[last.job].created_at < jobs[last.job].completed_at

\* A step that is a polling pass: the clock may stand at its bound, the remote
\* service does not move during a pass
IsPass(op) == last'.op = op /\ remote' = remote /\ (now' # now \/ now = MaxTime)

\* The leads of a job
Imported(j) == \E i \in DOMAIN leads : leads[i].job = j

\* The remote service reports job j as completed and its CSV file downloads
ReadyAtRemote(j) ==
    /\ j \in DOMAIN jobs
    /\ remote[jobs[j].external_id].word = "ok"
    /\ remote[jobs[j].external_id].downloads

\* C25: while the polling driver keeps passing, a job that the remote service
\* reports as completed and whose CSV file downloads has its leads imported in the
\* end, also when an earlier pass refreshed it to completed and failed to import.
C25_ReadyJobIsEventuallyImported ==
    \A j \in 1..MaxJobs : ReadyAtRemote(j) ~> Imported(j)

Eligible(j, min_age) ==
    /\ jobs[j].status \in {"pending", "running"}
    /\ now - jobs[j].created_at >= min_age

\* C29: a polling pass asks the remote service about, and writes, only jobs that
\* are stored as pending or running and are at least min_age old; the other jobs
\* and their leads stay as they are.
C29_PassTouchesOnlyEligibleJobs ==
    [][IsPass("_poll_jobs") \/ IsPass("check_and_import_ready_jobs") =>
           \A j \in DOMAIN jobs :
               ~Eligible(j, last'.min_age) =>
                   /\ j \notin last'.contacted
                   /\ jobs'[j] = jobs[j]
                   /\ LeadsOf(leads', j) = LeadsOf(leads, j)]_vars

\* C29 witness: a pass that refreshed and imported one job and passed over
\* another that was too young.
C29_Witness ==
    /\ last.op \in {"_poll_jobs", "check_and_import_ready_jobs"}
    /\ \E j, k \in DOMAIN jobs :
          /\ j \in last.contacted /\ Imported(j)
          /\ k \notin last.contacted /\ jobs[k].status = "pending"
          /\ (now - 1) - jobs[k].created_at < last.min_age

\* C26: when runs of import_job_results of one job are interleaved row by row, its
\* leads still do not share a non-empty cid, data_id or link.
C26_NoDuplicateKeysWhenInterleaved ==
    \A j \in DOMAIN jobs : \A a, b \in LeadsOf(leads, j) :
        a # b =>
            /\ ~(Truthy(leads[a].cid) /\ leads[a].cid = leads[b].cid)
            /\ ~(Truthy(leads[a].data_id) /\ leads[a].data_id = leads[b].data_id)
            /\ ~(Truthy(leads[a].link) /\ leads[a].link = leads[b].link)

\* C30: every stored extraction record has emails_count equal to the number of its
\* emails and full_text_length equal to the length of its full_text, 0 when there
\* is none, after first and forced scrapes of any outcome.
C30_CountsMatchContent ==
    \A i \in DOMAIN websites :
        /\ websites[i].emails_count = Len(websites[i].emails)
        /\ websites[i].full_text_length =
               IF websites[i].full_text = None THEN 0 ELSE Len(websites[i].full_text)

\* C30 witness: a record with emails and text next to a record that a forced
\* scrape has just left without either.
C30_Witness ==
    /\ last.op = "scrape_lead_website" /\ last.force /\ last.fetched
    /\ \E i, k \in DOMAIN websites :
          /\ last.result = i
          /\ websites[i].created_at < websites[i].scraped_at
          /\ websites[i].status # "completed"
          /\ websites[i].emails_count = 0 /\ websites[i].full_text_length = 0
          /\ websites[k].emails_count >= 1 /\ websites[k].full_text_length > 0

====
